---- MODULE Spec2Model ----
(***************************************************************************)
(* A model of the data layer of claude-explorer: the decoders of           *)
(* data/parsers.py, the reconciliation of directory-discovered sessions    *)
(* with the prompt history, and the two caches (parsers.DataCache and      *)
(* cache.DataCache).                                                       *)
(*                                                                         *)
(* Conventions.  A Python Optional is a sequence of length 0 (None) or 1.  *)
(* A Python str that the code inspects character by character is a         *)
(* sequence of one-character strings; other strs are TLA+ strings.  An     *)
(* instant (a timezone-aware datetime) is its number of microseconds since *)
(* the epoch.  A function that can raise returns [exc, val]: exc = ""      *)
(* when it returns val, the exception's class name when it raises.         *)
(***************************************************************************)
EXTENDS Integers, Sequences, FiniteSets, TLC

VARIABLES
    disk,       \* the files under ~/.claude: history_file, stats_file, projects_dir, plans_dir
    used,       \* the accessors of cache.DataCache the screens of this run call
    now,        \* time.time(), in seconds
    cache,      \* parsers.cache: _history, _stats, _projects, _sessions
    heap,       \* the projects lists in memory, by object
    entries,    \* cache.DataCache()._entries
    ret,        \* what the operation just performed returned or raised
    rIn,        \* reconciliation run: the inputs (history lines, projects directory)
    rOut,       \* reconciliation run: None, or what the pipeline produced
    rStage,     \* reconciliation run: "input", "discovered" or "reconciled"
    pIn,        \* scanner run: the file scanned (its kind and its lines)
    pOut,       \* scanner run: None, or the call made and what it returned or raised
    pStage,     \* scanner run: "input" or "done"
    worker,     \* the worker thread: the frames of the accessors it is inside
    main,       \* the main thread: where it is in invalidate(), the calls made
    search,     \* SearchScreen: its fields, the input, the table, timer and worker
    conv        \* ConversationScreen: its fields, the log and its workers

cacheVars     == <<disk, used, now, cache, heap, entries, ret>>
reconcileVars == <<rIn, rOut, rStage>>
parseVars     == <<pIn, pOut, pStage>>

threadVars    == <<worker, main>>
screenVars    == <<search, conv>>

vars == <<cacheVars, reconcileVars, parseVars, threadVars, screenVars>>

(***************************************************************************)
(* Bounds of the model.                                                    *)
(***************************************************************************)
MaxPrompts == 2     \* lines of history.jsonl in an enumerated input
MaxTsK     == 1     \* history timestamps are 0, TsStep, ..., MaxTsK * TsStep (ms)
TsStep     == 1500
MaxMtime   == 2     \* st_mtime of a transcript is 0 .. MaxMtime (s)
TickStep   == 200   \* seconds between two readings of the clock
MaxNow     == 400   \* the clock stops once it has reached MaxNow

None    == <<>>
Some(v) == <<v>>

Min(a, b) == IF a <= b THEN a ELSE b
Max(a, b) == IF a >= b THEN a ELSE b

SessionIds == {"s1", "s2"}

\* datetime.min.replace(tzinfo=timezone.utc): below every instant a timestamp yields
datetime_min == -1

\* mutant of fromtimestamp_ms: ts // 1000 where the code has ts / 1000
fromtimestamp_ms_whole_seconds(ts) == (ts \div 1000) * 1000000

\* datetime.fromtimestamp(ts / 1000, tz=utc), ts in milliseconds.  ts / 1000
\* is the double nearest to the quotient and fromtimestamp rounds it to the
\* microsecond; up to 4.5e12 ms (the year 2112) the double is within half a
\* microsecond of the quotient, so the instant is ts * 1000 microseconds.
fromtimestamp_ms(ts) == ts * 1000
\* datetime.fromtimestamp(stat.st_mtime, tz=utc), st_mtime in seconds
fromtimestamp_s(mtime) == mtime * 1000000

(***************************************************************************)
(* sorted(xs, key=...) and sorted(xs, key=..., reverse=True): both stable. *)
(* keys[i] is the key of xs[i].                                            *)
(***************************************************************************)
RankAsc(keys, i) ==
    Cardinality({j \in DOMAIN keys :
        keys[j] < keys[i] \/ (keys[j] = keys[i] /\ j < i)}) + 1

RankDesc(keys, i) ==
    Cardinality({j \in DOMAIN keys :
        keys[j] > keys[i] \/ (keys[j] = keys[i] /\ j < i)}) + 1

sorted(xs, keys) ==
    [r \in DOMAIN xs |-> xs[CHOOSE i \in DOMAIN xs : RankAsc(keys, i) = r]]

\* mutant of sorted_reverse: reverse=True is missing
sorted_reverse_ascending(xs, keys) ==
    [r \in DOMAIN xs |-> xs[CHOOSE i \in DOMAIN xs : RankAsc(keys, i) = r]]

\* the ranks are computed once, as a sequence, and then inverted
sorted_reverse(xs, keys) ==
    LET placed(rank) == [r \in DOMAIN xs |-> xs[CHOOSE i \in DOMAIN xs : rank[i] = r]]
    IN  placed(SubSeq([i \in DOMAIN xs |-> RankDesc(keys, i)], 1, Len(xs)))

RECURSIVE SumSeq(_)
SumSeq(s) == IF s = <<>> THEN 0 ELSE Head(s) + SumSeq(Tail(s))

RECURSIVE Flatten(_)
Flatten(ss) == IF ss = <<>> THEN <<>> ELSE Head(ss) \o Flatten(Tail(ss))

(***************************************************************************)
(* models.py: the display name of a project directory.                     *)
(***************************************************************************)
_HOME == <<"/", "h", "o", "m", "e", "/", "u">>

\* mutant of _HOME_ENCODED: the leading "/" is dropped before the replacement
_HOME_ENCODED_stripped ==
    [i \in 1..(Len(_HOME) - 1) |-> IF _HOME[i + 1] = "/" THEN "-" ELSE _HOME[i + 1]]

_HOME_ENCODED == [i \in DOMAIN _HOME |-> IF _HOME[i] = "/" THEN "-" ELSE _HOME[i]]

startswith(s, p) == Len(s) >= Len(p) /\ SubSeq(s, 1, Len(p)) = p

from_index(s, n) == SubSeq(s, n + 1, Len(s))

shorten_project_dir(name) ==
    LET Projects        == <<"P", "r", "o", "j", "e", "c", "t", "s">>
        prefix_projects == _HOME_ENCODED \o <<"-">> \o Projects \o <<"-">>
        prefix_home     == _HOME_ENCODED \o <<"-">>
    IN  IF startswith(name, prefix_projects)
        THEN LET result == from_index(name, Len(prefix_projects))
             IN  IF result # <<>> THEN result ELSE Projects
        ELSE IF name = _HOME_ENCODED \o <<"-">> \o Projects
        THEN Projects
        ELSE IF startswith(name, prefix_home)
        THEN LET suffix == from_index(name, Len(prefix_home))
             IN  IF startswith(suffix, <<"-">>)
                 THEN <<"~", "/", ".">> \o from_index(suffix, 1)
                 ELSE IF suffix # <<>> THEN <<"~", "/">> \o suffix ELSE <<"~">>
        ELSE IF name = _HOME_ENCODED
        THEN <<"~">>
        ELSE name

(***************************************************************************)
(* The projects directory.  Its entries are numbered in the order of their *)
(* names, which is the order sorted(projects_dir.iterdir()) visits them.   *)
(***************************************************************************)
DirNames == <<
    <<"-", "h", "o", "m", "e", "-", "u", "-", "-", "c", "l", "a", "u", "d", "e">>,
    <<"-", "h", "o", "m", "e", "-", "u", "-", "P", "r", "o", "j", "e", "c", "t", "s",
      "-", "a", "p", "p">> >>

DirIds == DOMAIN DirNames

(***************************************************************************)
(* parsers.py: _parse_history.  A line of history.jsonl is                 *)
(*   [json: "blank" | "invalid" | "nonobject" | "object" | "ioerror",      *)
(*    timestamp: [ty: "absent" | "num" | "str", v], display, project,      *)
(*    sessionId].                                                          *)
(* "nonobject" is valid JSON that is not an object (a list, a number);     *)
(* ty = "str" is a timestamp that is a JSON string.  "ioerror" is not a    *)
(* line: it marks the place where reading the file raises OSError (in      *)
(* first place, open() itself raised).                                     *)
(***************************************************************************)
Prompt(line) ==
    LET ts == IF line.timestamp.ty = "absent" THEN 0 ELSE line.timestamp.v
    IN  [text       |-> line.display,
         timestamp  |-> IF ts # 0 THEN fromtimestamp_ms(ts) ELSE datetime_min,
         project    |-> line.project,
         session_id |-> line.sessionId]

\* what the body of the try block does with one stripped, non-empty line:
\* "" (a Prompt is appended) or the class of the exception raised
history_line_raises(line) ==
    IF line.json = "ioerror" THEN "OSError"             \* open, for line in f
    ELSE IF line.json = "invalid" THEN "JSONDecodeError"     \* json.loads
    ELSE IF line.json = "nonobject" THEN "AttributeError"   \* data.get
    ELSE IF line.timestamp.ty = "str" THEN "TypeError"      \* ts / 1000
    ELSE ""

\* except (json.JSONDecodeError, ValueError): continue
history_caught(exc) == exc \in {"JSONDecodeError", "ValueError"}

\* the loop over the lines, prompts being the list so far.  It is evaluated
\* by halves so that a long file needs no deep recursion: the lines of the
\* first half and then, unless an exception has left the loop, the others
RECURSIVE history_loop(_, _)
history_loop(lines, prompts) ==
    IF lines = <<>> THEN [exc |-> "", val |-> prompts]
    ELSE IF Len(lines) > 1
    THEN LET others(first) ==
                 IF first.exc # "" THEN first
                 ELSE history_loop(SubSeq(lines, Len(lines) \div 2 + 1, Len(lines)),
                                   first.val)
         IN  others(history_loop(SubSeq(lines, 1, Len(lines) \div 2), prompts))
    ELSE LET line == Head(lines)
             exc  == history_line_raises(line)
         IN  IF line.json = "blank" THEN [exc |-> "", val |-> prompts]
             ELSE IF exc = "" THEN [exc |-> "", val |-> Append(prompts, Prompt(line))]
             ELSE IF history_caught(exc) THEN [exc |-> "", val |-> prompts]
             ELSE [exc |-> exc, val |-> <<>>]

\* history_file: None when history.jsonl does not exist, else Some(lines)
_parse_history(history_file) ==
    LET finish(r) ==
            IF r.exc # "" THEN r
            ELSE [exc |-> "",
                  val |-> sorted_reverse(r.val, [i \in DOMAIN r.val |-> r.val[i].timestamp])]
    IN  IF history_file = None THEN [exc |-> "", val |-> <<>>]
        ELSE finish(history_loop(history_file[1], <<>>))

(***************************************************************************)
(* parsers.py: _discover_projects.  projects_dir is None when the          *)
(* directory does not exist, else Some(d) with d[i], i \in DirIds:         *)
(*   [present, is_dir, files], files the *.jsonl files of the entry in the *)
(*   order glob yields them: [sid (the stem), mtime, size].                *)
(***************************************************************************)
Session(i, name, display, jf) ==
    [session_id     |-> jf.sid,
     project        |-> display,
     project_path   |-> name,
     first_activity |-> None,
     last_activity  |-> Some(fromtimestamp_s(jf.mtime)),
     prompt_count   |-> 0,
     message_count  |-> 0,
     jsonl_path     |-> Some(<<i, jf.sid>>),
     jsonl_size     |-> jf.size]

\* s.last_activity or datetime.min.replace(tzinfo=timezone.utc)
last_activity_key(s) == IF s.last_activity = None THEN datetime_min ELSE s.last_activity[1]

sort_sessions(sessions) ==
    sorted_reverse(sessions, [k \in DOMAIN sessions |-> last_activity_key(sessions[k])])

Project(i, entry) ==
    LET build(name, display, jsonl_files) ==
            [name          |-> name,
             path          |-> i,
             display_name  |-> display,
             sessions      |-> sort_sessions([k \in DOMAIN jsonl_files |->
                                  Session(i, name, display, jsonl_files[k])]),
             total_size    |-> SumSeq([k \in DOMAIN jsonl_files |-> jsonl_files[k].size]),
             session_count |-> Len(jsonl_files)]
    IN  build(DirNames[i], shorten_project_dir(DirNames[i]), entry.files)

RECURSIVE dir_loop(_, _, _)
dir_loop(d, i, projects) ==
    IF i > Len(DirNames) THEN projects
    ELSE IF ~d[i].present \/ ~d[i].is_dir THEN dir_loop(d, i + 1, projects)
    ELSE dir_loop(d, i + 1, Append(projects, Project(i, d[i])))

_discover_projects(projects_dir) ==
    LET by_size(projects) ==
            sorted_reverse(projects, [k \in DOMAIN projects |-> projects[k].total_size])
    IN  IF projects_dir = None THEN <<>>
        ELSE by_size(dir_loop(projects_dir[1], 1, <<>>))

(***************************************************************************)
(* parsers.py: _discover_all_sessions.  The Session objects of             *)
(* proj.sessions are updated in place and the same objects are put in the  *)
(* returned list, so the result is the pair of                             *)
(*   projects: the projects list as the call leaves it, and                *)
(*   sessions: the returned list, each element the place <<p, k>> of the   *)
(*             object projects[p].sessions[k] it is.                       *)
(***************************************************************************)
\* mutant of session_prompts: the session id is not looked at
session_prompts_any(history, sid) == history

session_prompts(history, sid) == SelectSeq(history, LAMBDA p : p.session_id = sid)

MinTs(prompts) ==
    CHOOSE t \in {prompts[k].timestamp : k \in DOMAIN prompts} :
        \A k \in DOMAIN prompts : t <= prompts[k].timestamp

MaxTs(prompts) ==
    CHOOSE t \in {prompts[k].timestamp : k \in DOMAIN prompts} :
        \A k \in DOMAIN prompts : t >= prompts[k].timestamp

\* mutants of reconcile_last_activity: the prompt time always wins; the test is inverted
reconcile_last_activity_regress(session, ts_from_prompts) == Some(ts_from_prompts)

reconcile_last_activity_inverted(session, ts_from_prompts) ==
    IF session.last_activity = None \/ ts_from_prompts < session.last_activity[1]
    THEN Some(ts_from_prompts)
    ELSE session.last_activity

reconcile_last_activity(session, ts_from_prompts) ==
    IF session.last_activity = None \/ ts_from_prompts > session.last_activity[1]
    THEN Some(ts_from_prompts)
    ELSE session.last_activity

reconcile_session(session, history) ==
    LET update(prompts) ==
            IF prompts # <<>>
            THEN [session EXCEPT
                    !.prompt_count   = Len(prompts),
                    !.first_activity = Some(MinTs(prompts)),
                    !.last_activity  = reconcile_last_activity(session, MaxTs(prompts))]
            ELSE session
    IN  update(session_prompts(history, session.session_id))

reconcile_projects(history, projects) ==
    [p \in DOMAIN projects |->
        [projects[p] EXCEPT !.sessions =
            [k \in DOMAIN projects[p].sessions |->
                reconcile_session(projects[p].sessions[k], history)]]]

\* the object at place ref of a projects list
deref(projects, ref) == projects[ref[1]].sessions[ref[2]]

\* mutant of sort_session_refs: the final sort is missing
sort_session_refs_unsorted(projects, refs) == refs

sort_session_refs(projects, refs) ==
    sorted_reverse(refs, [k \in DOMAIN refs |-> last_activity_key(deref(projects, refs[k]))])

\* mutant of session_refs: a session id already in the list is not appended again
session_refs_deduplicated(projects) ==
    LET all == Flatten([p \in DOMAIN projects |->
                   [k \in DOMAIN projects[p].sessions |-> <<p, k>>]])
        kept[n \in 0..Len(all)] ==
            IF n = 0 THEN <<>>
            ELSE IF \E j \in 1..(n - 1) :
                        deref(projects, all[j]).session_id = deref(projects, all[n]).session_id
            THEN kept[n - 1]
            ELSE Append(kept[n - 1], all[n])
    IN  kept[Len(all)]

\* for proj in projects: for session in proj.sessions: sessions.append(session)
session_refs(projects) ==
    Flatten([p \in DOMAIN projects |-> [k \in DOMAIN projects[p].sessions |-> <<p, k>>]])

_discover_all_sessions(history, projects) ==
    LET result(after) ==
            [projects |-> after,
             sessions |-> sort_session_refs(after, session_refs(after))]
    IN  result(reconcile_projects(history, projects))

\* the Session records of a returned sessions list
session_view(projects, refs) == [k \in DOMAIN refs |-> deref(projects, refs[k])]

(***************************************************************************)
(* Python str operations on sequences of characters.  "\n" is the newline; *)
(* "I." stands for U+0130, the one character here whose lower() is two     *)
(* characters ("i" and "'.", U+0307).                                      *)
(***************************************************************************)
Whitespace == {" ", "\n", "\t"}

lower_char(c) ==
    CASE c = "A"  -> <<"a">>
      [] c = "B"  -> <<"b">>
      [] c = "I." -> <<"i", "'.">>
      [] OTHER    -> <<c>>

\* str.lower()
lower(s) == Flatten([i \in DOMAIN s |-> lower_char(s[i])])

RECURSIVE lstrip(_)
lstrip(s) == IF s # <<>> /\ Head(s) \in Whitespace THEN lstrip(Tail(s)) ELSE s

RECURSIVE rstrip(_)
rstrip(s) ==
    IF s # <<>> /\ s[Len(s)] \in Whitespace THEN rstrip(SubSeq(s, 1, Len(s) - 1)) ELSE s

\* str.strip()
strip(s) == rstrip(lstrip(s))

\* mutant of slice: the character at b is taken too
slice_inclusive(s, a, b) == SubSeq(s, a + 1, Min(b + 1, Len(s)))

\* s[a:b] for 0 <= a, 0 <= b
slice(s, a, b) == SubSeq(s, a + 1, Min(b, Len(s)))

\* str.find(sub): the least 0-based index where sub occurs, or -1
find(s, sub) ==
    LET at == {i \in 0..(Len(s) - Len(sub)) : SubSeq(s, i + 1, i + Len(sub)) = sub}
    IN  IF at = {} THEN -1 ELSE CHOOSE i \in at : \A j \in at : i <= j

\* sub in s
contains(s, sub) == find(s, sub) # -1

\* str.replace("\n", " ")
replace_newlines(s) == [i \in DOMAIN s |-> IF s[i] = "\n" THEN " " ELSE s[i]]

(***************************************************************************)
(* parsers.py: _summarize_tool_use.  tool_name is a str; tool_input is     *)
(* [ty: "dict" | "other", file_path, command, pattern, description, query: *)
(* Optional str], "other" being a JSON value that is not an object.        *)
(***************************************************************************)
T_Read      == <<"R", "e", "a", "d">>
T_Write     == <<"W", "r", "i", "t", "e">>
T_Edit      == <<"E", "d", "i", "t">>
T_Bash      == <<"B", "a", "s", "h">>
T_Glob      == <<"G", "l", "o", "b">>
T_Grep      == <<"G", "r", "e", "p">>
T_Task      == <<"T", "a", "s", "k">>
T_WebSearch == <<"W", "e", "b", "S", "e", "a", "r", "c", "h">>
T_Search    == <<"S", "e", "a", "r", "c", "h">>

\* tool_input.get(key, '?')
get_or_q(field) == IF field = None THEN <<"?">> ELSE field[1]

_summarize_tool_use(tool_name, tool_input) ==
    IF tool_name \in {T_Read, T_Write, T_Edit, T_Bash, T_Glob, T_Grep, T_Task, T_WebSearch}
       /\ tool_input.ty # "dict"
    THEN [exc |-> "AttributeError", val |-> <<>>]       \* tool_input.get
    ELSE [exc |-> "", val |->
        CASE tool_name = T_Read  -> T_Read \o <<" ">> \o get_or_q(tool_input.file_path)
          [] tool_name = T_Write -> T_Write \o <<" ">> \o get_or_q(tool_input.file_path)
          [] tool_name = T_Edit  -> T_Edit \o <<" ">> \o get_or_q(tool_input.file_path)
          [] tool_name = T_Bash  -> <<"$", " ">> \o slice(get_or_q(tool_input.command), 0, 100)
          [] tool_name = T_Glob  -> T_Glob \o <<" ">> \o get_or_q(tool_input.pattern)
          [] tool_name = T_Grep  ->
                T_Grep \o <<" ", "'">> \o get_or_q(tool_input.pattern) \o <<"'">>
          [] tool_name = T_Task  -> T_Task \o <<":", " ">> \o get_or_q(tool_input.description)
          [] tool_name = T_WebSearch -> T_Search \o <<":", " ">> \o get_or_q(tool_input.query)
          [] OTHER -> tool_name \o <<"(", ")">>]

(***************************************************************************)
(* parsers.py: parse_session_transcript.  A line of a transcript is        *)
(*   [json: "blank" | "invalid" | "nonobject" | "object" | "ioerror", type, *)
(*    timestamp: [ty: "absent" | "iso" | "badstr" | "num", v],             *)
(*    message: [ty: "absent" | "dict" | "other", content],                 *)
(*    summary, subtype, content: a field].                                 *)
(* A field is [ty: "absent" | "str" | "other", v]: missing, a JSON string, *)
(* or a JSON value of another type (a number).  A message content is       *)
(* [ty: "absent" | "str" | "list" | "other", str, parts], a part           *)
(* [ty: "dict" | "str" | "other", type, text, thinking, name, input, str]. *)
(***************************************************************************)
L_command  == <<"<", "c", "o", "m", "m", "a", "n", "d", "-">>
L_Thinking == <<"[", "T", "h", "i", "n", "k", "i", "n", "g", "]", " ">>
L_Summary  == <<"[", "S", "u", "m", "m", "a", "r", "y", "]", " ">>
L_unknown  == <<"u", "n", "k", "n", "o", "w", "n">>

SessionMessage(role, content, timestamp, tool_name, message_type) ==
    [role |-> role, content |-> content, timestamp |-> timestamp,
     tool_name |-> tool_name, message_type |-> message_type]

\* the try block around datetime.fromisoformat: a failure leaves ts None
transcript_ts(line) == IF line.timestamp.ty = "iso" THEN Some(line.timestamp.v) ELSE None

produced(msgs) == [exc |-> "", val |-> msgs]
fails(exc) == [exc |-> exc, val |-> <<>>]

\* content of a user line: [exc, val]
RECURSIVE user_parts(_, _)
user_parts(parts, content) ==
    IF parts = <<>> THEN produced(content)
    ELSE LET part == Head(parts)
         IN  IF part.ty = "dict" /\ part.type = "text"
             THEN IF part.text.ty = "other" THEN fails("TypeError")     \* content += 5
                  ELSE user_parts(Tail(parts),
                         content \o (IF part.text.ty = "str" THEN part.text.v ELSE <<>>))
             ELSE IF part.ty = "str" THEN user_parts(Tail(parts), content \o part.str)
             ELSE user_parts(Tail(parts), content)

user_content(line) ==
    IF line.message.ty = "dict"
    THEN LET parts == line.message.content
         IN  IF parts.ty = "str" THEN produced(parts.str)
             ELSE IF parts.ty = "list" THEN user_parts(parts.parts, <<>>)
             ELSE produced(<<>>)
    ELSE produced(<<>>)

user_line(line, ts) ==
    LET c == user_content(line)
    IN  IF c.exc # "" THEN c
        ELSE LET clean == strip(c.val)
             IN  IF clean # <<>> /\ ~startswith(clean, L_command)
                 THEN produced(<<SessionMessage("user", clean, ts, None, "user")>>)
                 ELSE produced(<<>>)

\* one part of an assistant line: [exc, val], val the messages it appends
assistant_part(part, ts) ==
    IF part.ty # "dict" THEN produced(<<>>)
    ELSE IF part.type = "text" /\ part.text.ty = "other" THEN fails("AttributeError")
    ELSE IF part.type = "text" /\ part.text.ty = "str" /\ strip(part.text.v) # <<>>
    THEN produced(<<SessionMessage("assistant", strip(part.text.v), ts, None, "text")>>)
    ELSE IF part.type = "thinking"
    THEN IF part.thinking.ty = "other" THEN fails("AttributeError")
         ELSE LET thinking == IF part.thinking.ty = "str" THEN strip(part.thinking.v) ELSE <<>>
              IN  IF thinking # <<>>
                  THEN produced(<<SessionMessage("system", L_Thinking \o slice(thinking, 0, 300),
                                                 ts, None, "thinking")>>)
                  ELSE produced(<<>>)
    ELSE IF part.type = "tool_use"
    THEN LET tool_name == IF part.name = None THEN L_unknown ELSE part.name[1]
             summary   == _summarize_tool_use(tool_name, part.input)
         IN  IF summary.exc # "" THEN fails(summary.exc)
             ELSE produced(<<SessionMessage("tool", summary.val, ts, Some(tool_name),
                                            "tool_use")>>)
    ELSE produced(<<>>)

\* mutant of assistant_parts: the messages of a part are put before the others
RECURSIVE assistant_parts_prepended(_, _, _)
assistant_parts_prepended(parts, ts, msgs) ==
    IF parts = <<>> THEN produced(msgs)
    ELSE LET r == assistant_part(Head(parts), ts)
         IN  IF r.exc # "" THEN r
             ELSE assistant_parts_prepended(Tail(parts), ts, r.val \o msgs)

RECURSIVE assistant_parts(_, _, _)
assistant_parts(parts, ts, msgs) ==
    IF parts = <<>> THEN produced(msgs)
    ELSE LET r == assistant_part(Head(parts), ts)
         IN  IF r.exc # "" THEN r ELSE assistant_parts(Tail(parts), ts, msgs \o r.val)

assistant_line(line, ts) ==
    IF line.message.ty = "dict"
    THEN LET parts == line.message.content
         IN  IF parts.ty = "list" THEN assistant_parts(parts.parts, ts, <<>>)
             ELSE IF parts.ty = "str" /\ strip(parts.str) # <<>>
             THEN produced(<<SessionMessage("assistant", strip(parts.str), ts, None, "text")>>)
             ELSE produced(<<>>)
    ELSE produced(<<>>)

summary_line(line, ts) ==
    IF line.summary.ty = "other" THEN fails("TypeError")        \* content[:200]
    ELSE IF line.summary.ty = "str" /\ line.summary.v # <<>>
    THEN produced(<<SessionMessage("system", L_Summary \o slice(line.summary.v, 0, 200),
                                   ts, None, "summary")>>)
    ELSE produced(<<>>)

system_line(line, ts) ==
    IF line.subtype.ty = "str" /\ line.subtype.v # <<>> /\ line.content.ty = "other"
    THEN fails("TypeError")                                     \* content[:150]
    ELSE IF /\ line.subtype.ty = "str" /\ line.subtype.v # <<>>
            /\ line.content.ty = "str" /\ line.content.v # <<>>
    THEN produced(<<SessionMessage("system",
                        <<"[">> \o line.subtype.v \o <<"]", " ">> \o slice(line.content.v, 0, 150),
                        ts, None, "system")>>)
    ELSE produced(<<>>)

\* the body of the loop for one stripped, non-empty line: [exc, val]
transcript_line(line) ==
    IF line.json = "ioerror" THEN fails("OSError")                  \* open, for line in f
    ELSE IF line.json = "invalid" THEN fails("JSONDecodeError")
    ELSE IF line.json = "nonobject" THEN fails("AttributeError")    \* data.get
    ELSE LET ts == transcript_ts(line)
         IN  CASE line.type = "user"      -> user_line(line, ts)
               [] line.type = "assistant" -> assistant_line(line, ts)
               [] line.type = "summary"   -> summary_line(line, ts)
               [] line.type = "system"    -> system_line(line, ts)
               [] OTHER                   -> produced(<<>>)

\* except json.JSONDecodeError: continue
transcript_caught(exc) == exc = "JSONDecodeError"

\* count is len(messages) throughout
RECURSIVE transcript_loop(_, _, _)
transcript_loop(lines, max_messages, messages) ==
    IF lines = <<>> THEN produced(messages)
    ELSE IF Head(lines).json = "ioerror" THEN fails("OSError")
    ELSE IF Len(messages) >= max_messages THEN produced(messages)
    ELSE LET line == Head(lines)
             r    == transcript_line(line)
         IN  IF line.json = "blank" THEN transcript_loop(Tail(lines), max_messages, messages)
             ELSE IF r.exc = ""
             THEN transcript_loop(Tail(lines), max_messages, messages \o r.val)
             ELSE IF transcript_caught(r.exc)
             THEN transcript_loop(Tail(lines), max_messages, messages)
             ELSE fails(r.exc)

\* file: None when jsonl_path does not exist, else Some(lines)
parse_session_transcript(file, max_messages) ==
    IF file = None THEN produced(<<>>) ELSE transcript_loop(file[1], max_messages, <<>>)

(***************************************************************************)
(* parsers.py: search_conversations.  sessions is what                     *)
(* discover_all_sessions() returned; files gives, for the path of a        *)
(* transcript, None (no such file) or Some(lines).                         *)
(***************************************************************************)
RECURSIVE search_user_parts(_, _)
search_user_parts(parts, text) ==
    IF parts = <<>> THEN produced(text)
    ELSE LET p == Head(parts)
         IN  IF p.ty = "dict" /\ p.type = "text"
             THEN IF p.text.ty = "other" THEN fails("TypeError")    \* 5 + " "
                  ELSE search_user_parts(Tail(parts),
                         text \o (IF p.text.ty = "str" THEN p.text.v ELSE <<>>) \o <<" ">>)
             ELSE IF p.ty = "str" THEN search_user_parts(Tail(parts), text \o p.str \o <<" ">>)
             ELSE search_user_parts(Tail(parts), text)

RECURSIVE search_assistant_parts(_, _)
search_assistant_parts(parts, text) ==
    IF parts = <<>> THEN produced(text)
    ELSE LET p == Head(parts)
         IN  IF p.ty = "dict" /\ p.type = "text"
             THEN IF p.text.ty = "other" THEN fails("TypeError")
                  ELSE search_assistant_parts(Tail(parts),
                         text \o (IF p.text.ty = "str" THEN p.text.v ELSE <<>>) \o <<" ">>)
             ELSE search_assistant_parts(Tail(parts), text)

search_text(line) ==
    IF line.type = "user" /\ line.message.ty = "dict"
    THEN LET c == line.message.content
         IN  IF c.ty = "str" THEN produced(c.str)
             ELSE IF c.ty = "list" THEN search_user_parts(c.parts, <<>>)
             ELSE produced(<<>>)
    ELSE IF line.type = "assistant" /\ line.message.ty = "dict"
    THEN LET parts == line.message.content
         IN  IF parts.ty = "list" THEN search_assistant_parts(parts.parts, <<>>)
             ELSE produced(<<>>)
    ELSE produced(<<>>)

snippet_of(text, query) ==
    LET idx     == find(lower(text), lower(query))
        start   == Max(0, idx - 40)
        end     == Min(Len(text), idx + Len(query) + 40)
        snippet == strip(replace_newlines(slice(text, start, end)))
    IN  (IF start > 0 THEN <<".", ".", ".">> ELSE <<>>)
        \o snippet
        \o (IF end < Len(text) THEN <<".", ".", ".">> ELSE <<>>)

\* the body of the inner loop for one line: [exc, val], val the results it appends
search_line(line, session, query) ==
    IF line.json = "ioerror" THEN fails("OSError")                  \* open, for line in f
    ELSE IF line.json \in {"blank", "invalid"} THEN fails("JSONDecodeError")
    ELSE IF line.json = "nonobject" THEN fails("AttributeError")    \* data.get
    ELSE LET t == search_text(line)
         IN  IF t.exc # "" THEN t
             ELSE IF contains(lower(t.val), lower(query))
             THEN produced(<<[session   |-> session,
                              role      |-> IF line.type = "user" THEN "user" ELSE "assistant",
                              snippet   |-> snippet_of(t.val, query),
                              timestamp |-> line.timestamp]>>)
             ELSE produced(<<>>)

\* mutant of search_lines: the limit is tested with > where the code has >=
RECURSIVE search_lines_late(_, _, _, _, _)
search_lines_late(lines, session, query, max_results, results) ==
    IF lines = <<>> THEN produced(results)
    ELSE IF Head(lines).json = "ioerror" THEN [exc |-> "OSError", val |-> results]
    ELSE IF Len(results) > max_results THEN produced(results)
    ELSE LET r == search_line(Head(lines), session, query)
         IN  IF r.exc = ""
             THEN search_lines_late(Tail(lines), session, query, max_results,
                                    results \o r.val)
             ELSE IF transcript_caught(r.exc)
             THEN search_lines_late(Tail(lines), session, query, max_results, results)
             ELSE [exc |-> r.exc, val |-> results]

RECURSIVE search_lines(_, _, _, _, _)
search_lines(lines, session, query, max_results, results) ==
    IF lines = <<>> THEN produced(results)
    ELSE IF Head(lines).json = "ioerror" THEN [exc |-> "OSError", val |-> results]
    ELSE IF Len(results) >= max_results THEN produced(results)
    ELSE LET r == search_line(Head(lines), session, query)
         IN  IF r.exc = ""
             THEN search_lines(Tail(lines), session, query, max_results, results \o r.val)
             ELSE IF transcript_caught(r.exc)
             THEN search_lines(Tail(lines), session, query, max_results, results)
             ELSE [exc |-> r.exc, val |-> results]

\* mutant of search_sessions: the test of jsonl_size is missing
RECURSIVE search_sessions_any_size(_, _, _, _, _)
search_sessions_any_size(sessions, files, query, max_results, results) ==
    IF sessions = <<>> \/ Len(results) >= max_results THEN produced(results)
    ELSE LET session == Head(sessions)
         IN  IF session.jsonl_path = None \/ files[session.jsonl_path[1]] = None
             THEN search_sessions_any_size(Tail(sessions), files, query, max_results, results)
             ELSE LET r == search_lines(files[session.jsonl_path[1]][1], session, query,
                                        max_results, results)
                  IN  IF r.exc = "" \/ r.exc = "OSError"
                      THEN search_sessions_any_size(Tail(sessions), files, query,
                                                    max_results, r.val)
                      ELSE fails(r.exc)

RECURSIVE search_sessions(_, _, _, _, _)
search_sessions(sessions, files, query, max_results, results) ==
    IF sessions = <<>> \/ Len(results) >= max_results THEN produced(results)
    ELSE LET session == Head(sessions)
         IN  IF session.jsonl_path = None \/ files[session.jsonl_path[1]] = None
             THEN search_sessions(Tail(sessions), files, query, max_results, results)
             ELSE IF session.jsonl_size < 100
             THEN search_sessions(Tail(sessions), files, query, max_results, results)
             ELSE LET r == search_lines(files[session.jsonl_path[1]][1], session, query,
                                        max_results, results)
                  IN  IF r.exc = "" \/ r.exc = "OSError"     \* except OSError: continue
                      THEN search_sessions(Tail(sessions), files, query, max_results, r.val)
                      ELSE fails(r.exc)

search_conversations(query, max_results, sessions, files) ==
    search_sessions(sessions, files, query, max_results, <<>>)

(***************************************************************************)
(* parsers.py: _parse_stats.  stats_file is None when stats-cache.json     *)
(* does not exist, else Some([json: "invalid" | "object", dailyActivity]),  *)
(* dailyActivity being there when the document has that key.               *)
(* A date "YYYY-MM-DD" is the number of its day: the order of the numbers  *)
(* is the order of the strings.                                            *)
(***************************************************************************)
DailyStats(day) ==
    [date            |-> day.date,
     message_count   |-> day.messageCount,
     session_count   |-> day.sessionCount,
     tool_call_count |-> day.toolCallCount]

_parse_stats(stats_file) ==
    IF stats_file = None THEN <<>>
    ELSE IF stats_file[1].json = "invalid" THEN <<>>
    ELSE LET by_date(stats) == sorted(stats, [k \in DOMAIN stats |-> stats[k].date])
             of_days(days) == by_date([k \in DOMAIN days |-> DailyStats(days[k])])
         IN  of_days(IF "dailyActivity" \in DOMAIN stats_file[1]
                     THEN stats_file[1].dailyActivity ELSE <<>>)

(***************************************************************************)
(* parsers.py: parse_plans.  plans_dir is None when the directory does not *)
(* exist, else Some(files), the *.md files in the order of their names:    *)
(* [stem, mtime, size].  Plan.name, a respelling of the stem, is left out. *)
(***************************************************************************)
Plan(f) ==
    [path     |-> f.stem,
     modified |-> Some(fromtimestamp_s(f.mtime)),
     size     |-> f.size]

_modified_key(p) == IF p.modified = None THEN datetime_min ELSE p.modified[1]

parse_plans(plans_dir) ==
    IF plans_dir = None THEN <<>>
    ELSE LET by_modified(plans) ==
                 sorted_reverse(plans, [k \in DOMAIN plans |-> _modified_key(plans[k])])
         IN  by_modified([k \in DOMAIN plans_dir[1] |-> Plan(plans_dir[1][k])])

(***************************************************************************)
(* parsers.py: class DataCache and the module-level instance `cache`.      *)
(* The memory m = [cache, heap] is threaded through the properties, which  *)
(* return [exc, val, m].  A projects list is an object of the heap, named  *)
(* by its place there, because _discover_all_sessions writes into it after *)
(* it has been handed out; the other values are never written after they   *)
(* are built and are held by value (so equal stands for identical).        *)
(***************************************************************************)
ParserKeys == {"history", "stats", "projects", "sessions"}

\* two places are enough: at most parsers.cache and one entry of
\* cache.DataCache hold different projects lists
Oids == {1, 2}

alloc(h) == CHOOSE o \in Oids : h[o] = None /\ \A o2 \in Oids : o2 < o => h[o2] # None

raised(exc, m) == [exc |-> exc, val |-> <<>>, m |-> m]
returned(val, m) == [exc |-> "", val |-> val, m |-> m]

cache_history(m, d) ==
    LET store(r) ==
            IF r.exc # "" THEN raised(r.exc, m)
            ELSE returned(r.val, [m EXCEPT !.cache.history = Some(r.val)])
    IN  IF m.cache.history # None THEN returned(m.cache.history[1], m)
        ELSE store(_parse_history(d.history_file))

cache_stats(m, d) ==
    LET store(v) == returned(v, [m EXCEPT !.cache.stats = Some(v)])
    IN  IF m.cache.stats # None THEN returned(m.cache.stats[1], m)
        ELSE store(_parse_stats(d.stats_file))

cache_projects(m, d) ==
    LET store(o) ==
            returned(o, [m EXCEPT !.cache.projects = Some(o),
                                  !.heap[o] = Some(_discover_projects(d.projects_dir))])
    IN  IF m.cache.projects # None THEN returned(m.cache.projects[1], m)
        ELSE store(alloc(m.heap))

\* self._sessions = _discover_all_sessions(self.history, self.projects)
cache_sessions(m, d) ==
    LET store(p, r, v) ==
            returned(v, [p.m EXCEPT !.cache.sessions = Some(v),
                                    !.heap[p.val] = Some(r.projects)])
        reconciled(p, r) == store(p, r, session_view(r.projects, r.sessions))
        with_projects(h, p) ==
            reconciled(p, _discover_all_sessions(h.val, p.m.heap[p.val][1]))
        with_history(h) ==
            IF h.exc # "" THEN raised(h.exc, h.m)
            ELSE with_projects(h, cache_projects(h.m, d))
    IN  IF m.cache.sessions # None THEN returned(m.cache.sessions[1], m)
        ELSE with_history(cache_history(m, d))

\* parse_history(), parse_stats(), discover_projects(), discover_all_sessions()
cache_get(k, m, d) ==
    CASE k = "history"  -> cache_history(m, d)
      [] k = "stats"    -> cache_stats(m, d)
      [] k = "projects" -> cache_projects(m, d)
      [] k = "sessions" -> cache_sessions(m, d)

\* mutant of cache_invalidate: _projects is not reset
cache_invalidate_keeps_projects(c) ==
    [k \in DOMAIN c |-> IF k = "projects" THEN c[k] ELSE None]

\* DataCache.invalidate
cache_invalidate(c) == [k \in DOMAIN c |-> None]

(***************************************************************************)
(* parsers.py: the rest of stats-cache.json and get_global_stats.  A JSON  *)
(* object is a record of the keys it has; "json" is not a key but the kind *)
(* of the document.  modelUsage is the sequence of its items in file       *)
(* order, [model_id, inputTokens, ...]; hourCounts the sequence of its     *)
(* items [h, c], each [ty: "digits" | "other", v]: a numeral spelling v,   *)
(* or a value int() does not accept.                                       *)
(***************************************************************************)
\* data.get(key, default)
get(data, key, default) == IF key \in DOMAIN data THEN data[key] ELSE default

\* {}: a JSON object without keys
EmptyDict == [json |-> "object"]

_load_stats_json(stats_file) ==
    IF stats_file = None THEN EmptyDict
    ELSE IF stats_file[1].json = "invalid" THEN EmptyDict
    ELSE stats_file[1]

ModelUsage(item) ==
    [model_id              |-> item.model_id,
     input_tokens          |-> get(item, "inputTokens", 0),
     output_tokens         |-> get(item, "outputTokens", 0),
     cache_read_tokens     |-> get(item, "cacheReadInputTokens", 0),
     cache_creation_tokens |-> get(item, "cacheCreationInputTokens", 0)]

\* ModelUsage.total_tokens
total_tokens(u) ==
    u.input_tokens + u.output_tokens + u.cache_read_tokens + u.cache_creation_tokens

_parse_model_usages(data) ==
    LET by_total(usages) ==
            sorted_reverse(usages, [k \in DOMAIN usages |-> total_tokens(usages[k])])
        of_items(items) == by_total([k \in DOMAIN items |-> ModelUsage(items[k])])
    IN  of_items(get(data, "modelUsage", <<>>))

\* {int(h): int(c) for h, c in raw.items()}: [exc, val], val a function of the hours
_parse_hour_counts(data) ==
    LET of_items(raw) ==
            IF \E k \in DOMAIN raw : raw[k].h.ty # "digits" \/ raw[k].c.ty # "digits"
            THEN [exc |-> "ValueError", val |-> <<>>]
            ELSE [exc |-> "",
                  val |-> [hour \in {raw[k].h.v : k \in DOMAIN raw} |->
                              raw[CHOOSE k \in DOMAIN raw :
                                      /\ raw[k].h.v = hour
                                      /\ \A j \in DOMAIN raw : raw[j].h.v = hour => j <= k].c.v]]
    IN  of_items(get(data, "hourCounts", <<>>))

_parse_longest_session(data) == get(data, "longestSession", EmptyDict)

\* a date is shown as it is; "?" is not a date
UnknownDate == <<"?">>
DateOf(date) == <<"date", date>>

\* mutant of counted_projects: every project directory counts
counted_projects_all(projects) == DOMAIN projects

\* [p for p in projects if p.session_count > 0]
counted_projects(projects) == {k \in DOMAIN projects : projects[k].session_count > 0}

GlobalStats(stats, history, projects, longest, model_usages, hour_counts) ==
    [total_messages   |-> SumSeq([k \in DOMAIN stats |-> stats[k].message_count]),
     total_sessions   |-> SumSeq([k \in DOMAIN stats |-> stats[k].session_count]),
     total_tools      |-> SumSeq([k \in DOMAIN stats |-> stats[k].tool_call_count]),
     total_prompts    |-> Len(history),
     total_projects   |-> Cardinality(counted_projects(projects)),
     total_data_bytes |-> SumSeq([k \in DOMAIN projects |-> projects[k].total_size]),
     first_date       |-> IF stats # <<>> THEN DateOf(stats[1].date) ELSE UnknownDate,
     last_date        |-> IF stats # <<>> THEN DateOf(stats[Len(stats)].date) ELSE UnknownDate,
     active_days      |-> Len(stats),
     daily_stats      |-> stats,
     model_usages     |-> model_usages,
     hour_counts      |-> hour_counts,
     longest_session_id          |-> get(longest, "sessionId", ""),
     longest_session_duration_ms |-> get(longest, "duration", 0),
     longest_session_msgs        |-> get(longest, "messageCount", 0)]

\* [exc, val, m].  The values parsers.cache keeps of stats-cache.json
\* (raw_stats_json, model_usages, hour_counts, longest_session) are computed
\* here from the file: where get_global_stats is called the file stays as it
\* is, so the value kept by an earlier call is the value computed now.
get_global_stats(m, d) ==
    LET build(s, h, p, data, hours) ==
            IF hours.exc # "" THEN raised(hours.exc, p.m)
            ELSE returned(GlobalStats(s.val, h.val, p.m.heap[p.val][1],
                                      _parse_longest_session(data),
                                      _parse_model_usages(data), hours.val), p.m)
        with_data(s, h, p, data) == build(s, h, p, data, _parse_hour_counts(data))
        with_projects(s, h, p) == with_data(s, h, p, _load_stats_json(d.stats_file))
        with_history(s, h) ==
            IF h.exc # "" THEN raised(h.exc, h.m)
            ELSE with_projects(s, h, cache_projects(h.m, d))
        with_stats(s) == with_history(s, cache_history(s.m, d))
    IN  with_stats(cache_stats(m, d))

(***************************************************************************)
(* cache.py: CacheEntry and the singleton DataCache.                       *)
(***************************************************************************)
EntryKeys == {"history", "stats", "projects", "sessions", "plans"}

\* ttl: float = 300.0, the default every accessor uses
DefaultTtl == 300

CacheEntry(data, timestamp, ttl) == [data |-> data, timestamp |-> timestamp, ttl |-> ttl]

\* mutant of is_valid: the comparison is the wrong way round
is_valid_reversed(entry, t) == (t - entry.timestamp) > entry.ttl

\* CacheEntry.is_valid; data is never None, every loader returns a collection
is_valid(entry, t) == (t - entry.timestamp) < entry.ttl

\* the loader each accessor hands to _get_or_load
loader(key, m, d) ==
    IF key = "plans" THEN returned(parse_plans(d.plans_dir), m)
    ELSE cache_get(key, m, d)

\* returns [exc, val, m, entries]
_get_or_load(key, m, e, d, t) ==
    LET store(r) ==
            IF r.exc # "" THEN [exc |-> r.exc, val |-> <<>>, m |-> r.m, entries |-> e]
            ELSE [exc |-> "", val |-> r.val, m |-> r.m,
                  entries |-> [e EXCEPT ![key] = Some(CacheEntry(r.val, t, DefaultTtl))]]
    IN  IF e[key] # None /\ is_valid(e[key][1], t)
        THEN [exc |-> "", val |-> e[key][1].data, m |-> m, entries |-> e]
        ELSE store(loader(key, m, d))

\* mutant of invalidate: dropping "projects" also drops the keys derived from it
invalidate_cascading(e, key) ==
    IF key # None /\ key[1] # ""
    THEN [k \in DOMAIN e |->
            IF k = key[1] \/ (key[1] = "projects" /\ k = "sessions") THEN None ELSE e[k]]
    ELSE [k \in DOMAIN e |-> None]

\* DataCache.invalidate(key): key is None or Some(str); "" is falsy as None is
invalidate(e, key) ==
    IF key # None /\ key[1] # ""
    THEN [k \in DOMAIN e |-> IF k = key[1] THEN None ELSE e[k]]
    ELSE [k \in DOMAIN e |-> None]

invalidate_all(e) == [k \in DOMAIN e |-> None]

\* the objects nothing refers to any more are dropped from the heap
collect(h, c, e) ==
    [o \in Oids |->
        IF c.projects = Some(o) \/ (e["projects"] # None /\ e["projects"][1].data = o)
        THEN h[o] ELSE None]

(***************************************************************************)
(* Enumerated inputs.                                                      *)
(***************************************************************************)
SeqsUpTo(S, n) == UNION {[1..m -> S] : m \in 0..n}

TsValues == {k * TsStep : k \in 0..MaxTsK}

ValidLines ==
    {[json |-> "object", timestamp |-> [ty |-> "num", v |-> ts],
      display |-> "hello", project |-> "/home/u/Projects/app", sessionId |-> sid] : ts \in TsValues, sid \in SessionIds}

\* size of the transcript <<i, sid>> in the enumerated directories
SizeOf(i, sid) == IF sid = "s1" THEN 150 * i ELSE 50

\* the first directory holds at most one transcript, the others at most two
FilesOf(i) ==
    {fs \in SeqsUpTo([sid : SessionIds, mtime : 0..MaxMtime, size : {50, 150, 300}],
                     IF i = 1 THEN 1 ELSE 2) :
        /\ \A k \in DOMAIN fs : fs[k].size = SizeOf(i, fs[k].sid)
        /\ \A k, l \in DOMAIN fs : k # l => fs[k].sid # fs[l].sid}

DirEntries(i) ==
    {[present |-> TRUE, is_dir |-> TRUE, files |-> fs] : fs \in FilesOf(i)}
    \cup {[present |-> TRUE, is_dir |-> FALSE, files |-> <<>>],
          [present |-> FALSE, is_dir |-> FALSE, files |-> <<>>]}

ProjectsDirs == {None} \cup {Some(d) : d \in {d \in [DirIds -> UNION {DirEntries(i) : i \in DirIds}] :
                                        \A i \in DirIds : d[i] \in DirEntries(i)}}

(***************************************************************************)
(* SpecReconcile: the discovery pipeline on every enumerated input.        *)
(***************************************************************************)
\* the cache machine is idle in the runs of the other specifications
CacheIdle ==
    /\ disk = [history_file |-> None, stats_file |-> None, projects_dir |-> None,
               plans_dir |-> None]
    /\ used = {}
    /\ now = 0
    /\ cache = [k \in ParserKeys |-> None]
    /\ heap = [o \in Oids |-> None]
    /\ entries = [k \in EntryKeys |-> None]
    /\ ret = None

\* so are the reconciliation pipeline and the scanners
ReconcileIdle == rIn = None /\ rOut = None /\ rStage = "idle"

ParseIdle == pIn = None /\ pOut = None /\ pStage = "idle"

\* and the threads and the screens
ThreadIdle == worker = None /\ main = None

ScreenIdle == search = None /\ conv = None

ReconcileInit ==
    /\ ThreadIdle
    /\ ScreenIdle
    /\ CacheIdle
    /\ ParseIdle
    /\ rIn \in [history_file : {None} \cup {Some(ls) : ls \in SeqsUpTo(ValidLines, MaxPrompts)},
                projects_dir : ProjectsDirs]
    /\ rOut = None
    /\ rStage = "input"

\* cache.projects and cache.history are populated
Discover ==
    /\ rStage = "input"
    /\ rOut' = Some([history  |-> _parse_history(rIn.history_file).val,
                     stubs    |-> _discover_projects(rIn.projects_dir),
                     projects |-> _discover_projects(rIn.projects_dir),
                     sessions |-> <<>>])
    /\ rStage' = "discovered"
    /\ UNCHANGED <<rIn, cacheVars, parseVars, threadVars, screenVars>>

\* cache.sessions is populated
Reconcile ==
    /\ rStage = "discovered"
    /\ LET r == _discover_all_sessions(rOut[1].history, rOut[1].projects)
       IN  rOut' = Some([rOut[1] EXCEPT !.projects = r.projects, !.sessions = r.sessions])
    /\ rStage' = "reconciled"
    /\ UNCHANGED <<rIn, cacheVars, parseVars, threadVars, screenVars>>

ReconcileNext == Discover \/ Reconcile

SpecReconcile == ReconcileInit /\ [][ReconcileNext]_vars

(***************************************************************************)
(* Reconciliation claims, over the runs of SpecReconcile.                  *)
(***************************************************************************)
Reconciled == rStage = "reconciled"

\* the prompts of the history that carry a session id, as positions
PromptsOf(history, sid) == {n \in DOMAIN history : history[n].session_id = sid}

\* C4: after reconciliation every stub with at least one prompt of its session id has
\* prompt_count = the number of those prompts, first_activity = their earliest
\* timestamp and last_activity = the later of the stub's mtime-derived instant and
\* their latest timestamp, so last_activity is never earlier than the stub's.
C4_Reconciled ==
    Reconciled =>
        \A ref \in {rOut[1].sessions[n] : n \in DOMAIN rOut[1].sessions} :
            LET stub == deref(rOut[1].stubs, ref)
                s    == deref(rOut[1].projects, ref)
                H    == rOut[1].history
                ps   == PromptsOf(H, stub.session_id)
            IN  ps # {} =>
                  /\ s.prompt_count = Cardinality(ps)
                  /\ s.first_activity # None
                  /\ \E n \in ps : H[n].timestamp = s.first_activity[1]
                  /\ \A n \in ps : s.first_activity[1] <= H[n].timestamp
                  /\ s.last_activity # None
                  /\ s.last_activity[1] >= stub.last_activity[1]
                  /\ \A n \in ps : s.last_activity[1] >= H[n].timestamp
                  /\ \/ s.last_activity = stub.last_activity
                     \/ \E n \in ps : H[n].timestamp = s.last_activity[1]

\* a session whose latest prompt is later than its file's mtime, and one whose
\* latest prompt is earlier, both reconciled
C4_Witness ==
    /\ Reconciled
    /\ \E r1, r2 \in {rOut[1].sessions[n] : n \in DOMAIN rOut[1].sessions} :
         LET H == rOut[1].history IN
         /\ \E n \in PromptsOf(H, deref(rOut[1].stubs, r1).session_id) :
               H[n].timestamp > deref(rOut[1].stubs, r1).last_activity[1]
         /\ PromptsOf(H, deref(rOut[1].stubs, r2).session_id) # {}
         /\ \A n \in PromptsOf(H, deref(rOut[1].stubs, r2).session_id) :
               H[n].timestamp < deref(rOut[1].stubs, r2).last_activity[1]

\* C5: after reconciliation a stub with no prompt of its session id is the stub
\* unchanged: prompt_count 0, first_activity absent, last_activity the mtime's.
C5_Untouched ==
    Reconciled =>
        \A ref \in {rOut[1].sessions[n] : n \in DOMAIN rOut[1].sessions} :
            LET stub == deref(rOut[1].stubs, ref)
                s    == deref(rOut[1].projects, ref)
            IN  PromptsOf(rOut[1].history, stub.session_id) = {} =>
                  /\ s.prompt_count = 0
                  /\ s.first_activity = None
                  /\ s.last_activity = stub.last_activity
                  /\ s = stub

\* a reconciled run with a non-empty history and a session none of its prompts names
C5_Witness ==
    /\ Reconciled
    /\ rOut[1].history # <<>>
    /\ \E ref \in {rOut[1].sessions[n] : n \in DOMAIN rOut[1].sessions} :
         PromptsOf(rOut[1].history, deref(rOut[1].stubs, ref).session_id) = {}

\* C6: every session of the reconciled view has first_activity <= last_activity
\* when both are present.
C6_FirstBeforeLast ==
    Reconciled =>
        \A n \in DOMAIN rOut[1].sessions :
            LET s == deref(rOut[1].projects, rOut[1].sessions[n])
            IN  (s.first_activity # None /\ s.last_activity # None) =>
                    s.first_activity[1] <= s.last_activity[1]

\* a reconciled session whose prompts include one with the sentinel timestamp, and
\* one whose every prompt is later than its file's mtime
C6_Witness ==
    /\ Reconciled
    /\ \E n \in DOMAIN rOut[1].sessions :
         deref(rOut[1].projects, rOut[1].sessions[n]).first_activity = Some(datetime_min)
    /\ \E n \in DOMAIN rOut[1].sessions :
         LET s == deref(rOut[1].projects, rOut[1].sessions[n])
         IN  /\ s.first_activity # None
             /\ s.first_activity[1] > deref(rOut[1].stubs, rOut[1].sessions[n]).last_activity[1]

\* C7: the returned list is in descending order of last_activity, an absent
\* last_activity counting as the minimum instant.
C7_SortedDesc ==
    Reconciled =>
        \A m, n \in DOMAIN rOut[1].sessions :
            m < n => last_activity_key(deref(rOut[1].projects, rOut[1].sessions[m]))
                       >= last_activity_key(deref(rOut[1].projects, rOut[1].sessions[n]))

\* a returned list with sessions of two projects that is not in the order the
\* projects were visited
C7_Witness ==
    /\ Reconciled
    /\ \E m, n \in DOMAIN rOut[1].sessions :
         /\ m < n
         /\ rOut[1].sessions[m][1] > rOut[1].sessions[n][1]
         /\ last_activity_key(deref(rOut[1].projects, rOut[1].sessions[m]))
              > last_activity_key(deref(rOut[1].projects, rOut[1].sessions[n]))

\* the transcript files of the projects directory, <<i, k>> the k-th file of
\* the i-th entry
TranscriptFiles ==
    IF rIn.projects_dir = None THEN {}
    ELSE UNION {{<<i, k>> : k \in DOMAIN rIn.projects_dir[1][i].files} :
                  i \in {i \in DirIds : /\ rIn.projects_dir[1][i].present
                                         /\ rIn.projects_dir[1][i].is_dir}}

\* C17: the sessions view holds exactly one Session per transcript file, two
\* files of the same session id in different project directories included:
\* each file has its one Session, with the file's project directory, path and
\* size, and there is no other Session.
C17_OneSessionPerFile ==
    Reconciled =>
        LET S == session_view(rOut[1].projects, rOut[1].sessions)
        IN  /\ Len(S) = Cardinality(TranscriptFiles)
            /\ \A f \in TranscriptFiles :
                   LET jf == rIn.projects_dir[1][f[1]].files[f[2]]
                   IN  \E n \in DOMAIN S :
                          /\ S[n].jsonl_path = Some(<<f[1], jf.sid>>)
                          /\ S[n].session_id = jf.sid
                          /\ S[n].project_path = DirNames[f[1]]
                          /\ S[n].jsonl_size = jf.size
                          /\ \A m \in DOMAIN S : S[m].jsonl_path = S[n].jsonl_path => m = n

\* a reconciled view with two sessions of one session id, of different
\* project directories and sizes, the history holding a prompt of that id
C17_Witness ==
    /\ Reconciled
    /\ LET S == session_view(rOut[1].projects, rOut[1].sessions)
       IN  \E m, n \in DOMAIN S :
              /\ S[m].session_id = S[n].session_id
              /\ S[m].project_path # S[n].project_path
              /\ S[m].jsonl_size # S[n].jsonl_size
              /\ PromptsOf(rOut[1].history, S[m].session_id) # {}

(***************************************************************************)
(* Spec: the two caches over files that change underneath them.            *)
(***************************************************************************)
HLine(ts, sid) ==
    [json |-> "object", timestamp |-> [ty |-> "num", v |-> ts],
     display |-> "hello", project |-> "/home/u/Projects/app", sessionId |-> sid]

BadLine ==
    [json |-> "invalid", timestamp |-> [ty |-> "absent", v |-> 0],
     display |-> "", project |-> "", sessionId |-> ""]

Day(n) == [date |-> n, messageCount |-> 10 * n, sessionCount |-> n, toolCallCount |-> 0]

Dir(fs) == [present |-> TRUE, is_dir |-> TRUE, files |-> fs]

NoDir == [present |-> FALSE, is_dir |-> FALSE, files |-> <<>>]

\* the states of ~/.claude the runs move between
DiskStates == {
    [history_file |-> Some(<<HLine(TsStep, "s1")>>),
     stats_file   |-> Some([json |-> "object", dailyActivity |-> <<Day(2), Day(1)>>]),
     projects_dir |-> Some(<<NoDir,
                             Dir(<<[sid |-> "s1", mtime |-> 0, size |-> 150],
                                   [sid |-> "s2", mtime |-> 1, size |-> 50]>>)>>),
     plans_dir    |-> Some(<<[stem |-> "plan-a", mtime |-> 1, size |-> 10]>>)],
    [history_file |-> Some(<<HLine(0, "s2"), BadLine, HLine(TsStep, "s1")>>),
     stats_file   |-> Some([json |-> "object", dailyActivity |-> <<Day(1), Day(2), Day(3)>>]),
     projects_dir |-> Some(<<Dir(<<[sid |-> "s1", mtime |-> 2, size |-> 300]>>),
                             Dir(<<[sid |-> "s1", mtime |-> 0, size |-> 150],
                                   [sid |-> "s2", mtime |-> 1, size |-> 50]>>)>>),
     plans_dir    |-> Some(<<[stem |-> "plan-a", mtime |-> 1, size |-> 10],
                             [stem |-> "plan-b", mtime |-> 2, size |-> 20]>>)] }

\* the accessors of cache.DataCache one run calls, and the functions of parsers
\* it calls: those behind its accessors and what they are derived from
KeySets == {{"projects", "sessions"}, {"history", "stats", "plans"}}

parsers_used(keys) ==
    (keys \cap ParserKeys) \cup (IF "sessions" \in keys THEN {"history", "projects"} ELSE {})

Init ==
    /\ ThreadIdle
    /\ ScreenIdle
    /\ disk \in DiskStates
    /\ used \in KeySets
    /\ now = 0
    /\ cache = [k \in ParserKeys |-> None]
    /\ heap = [o \in Oids |-> None]
    /\ entries = [k \in EntryKeys |-> None]
    /\ ret = None
    /\ ReconcileIdle
    /\ ParseIdle

\* another process changes the files
DiskWrite ==
    /\ \E d \in DiskStates \ {disk} : disk' = d
    /\ ret' = None
    /\ UNCHANGED <<used, now, cache, heap, entries, reconcileVars, parseVars, threadVars, screenVars>>

\* time passes
Tick ==
    /\ now < MaxNow
    /\ now' = now + TickStep
    /\ ret' = None
    /\ UNCHANGED <<disk, used, cache, heap, entries, reconcileVars, parseVars, threadVars, screenVars>>

\* a screen calls parse_history(), parse_stats(), discover_projects() or
\* discover_all_sessions()
ParsersGet(k) ==
    /\ k \in parsers_used(used)
    /\ \E r \in {cache_get(k, [cache |-> cache, heap |-> heap], disk)} :
           /\ cache' = r.m.cache
           /\ heap' = collect(r.m.heap, r.m.cache, entries)
           /\ ret' = Some([op |-> "parsers", key |-> Some(k), exc |-> r.exc, val |-> r.val])
    /\ UNCHANGED <<disk, used, now, entries, reconcileVars, parseVars, threadVars, screenVars>>

\* a screen calls DataCache().history(), .stats(), .projects(), .sessions() or .plans()
DataCacheGet(k) ==
    /\ k \in used
    /\ \E r \in {_get_or_load(k, [cache |-> cache, heap |-> heap], entries, disk, now)} :
           /\ cache' = r.m.cache
           /\ entries' = r.entries
           /\ heap' = collect(r.m.heap, r.m.cache, r.entries)
           /\ ret' = Some([op |-> "DataCache", key |-> Some(k), exc |-> r.exc, val |-> r.val])
    /\ UNCHANGED <<disk, used, now, reconcileVars, parseVars, threadVars, screenVars>>

\* DataCache().invalidate(key); ret keeps what _entries.pop(key, None) gave
Invalidate(key) ==
    /\ key \in {None, Some("")} \cup {Some(k) : k \in used}
    /\ entries' = invalidate(entries, key)
    /\ heap' = collect(heap, cache, entries')
    /\ ret' = Some([op |-> "invalidate", key |-> key, exc |-> "",
                    val |-> IF key # None /\ key[1] \in EntryKeys THEN entries[key[1]] ELSE None])
    /\ UNCHANGED <<disk, used, now, cache, reconcileVars, parseVars, threadVars, screenVars>>

\* DataCache().invalidate_all()
InvalidateAll ==
    /\ entries' = invalidate_all(entries)
    /\ heap' = collect(heap, cache, entries')
    /\ ret' = Some([op |-> "invalidate_all", key |-> None, exc |-> "", val |-> None])
    /\ UNCHANGED <<disk, used, now, cache, reconcileVars, parseVars, threadVars, screenVars>>

\* refresh_data(): cache.invalidate()
RefreshData ==
    /\ cache' = cache_invalidate(cache)
    /\ heap' = collect(heap, cache', entries)
    /\ ret' = Some([op |-> "refresh_data", key |-> None, exc |-> "", val |-> None])
    /\ UNCHANGED <<disk, used, now, entries, reconcileVars, parseVars, threadVars, screenVars>>

Next ==
    \/ DiskWrite
    \/ Tick
    \/ \E k \in ParserKeys : ParsersGet(k)
    \/ \E k \in EntryKeys : DataCacheGet(k)
    \/ \E key \in {None, Some("")} \cup {Some(k) : k \in EntryKeys} : Invalidate(key)
    \/ InvalidateAll
    \/ RefreshData

Spec == Init /\ [][Next]_vars

(***************************************************************************)
(* Cache claims, over the runs of Spec.                                    *)
(***************************************************************************)
Returned(op, k) == ret # None /\ ret[1].op = op /\ ret[1].key = Some(k)

\* the step is the call of a function of parsers, of an accessor of cache.DataCache
ParsersGetStep(k) ==
    ret' # None /\ ret'[1].op = "parsers" /\ ret'[1].key = Some(k) /\ ParsersGet(k)

DataCacheGetStep(k) ==
    ret' # None /\ ret'[1].op = "DataCache" /\ ret'[1].key = Some(k) /\ DataCacheGet(k)

\* the step is an invalidation of cache.DataCache, of parsers.cache
InvalidateStep(key) ==
    ret' # None /\ ret'[1].op = "invalidate" /\ ret'[1].key = key /\ Invalidate(key)

InvalidateAllStep == ret' # None /\ ret'[1].op = "invalidate_all" /\ InvalidateAll

RefreshDataStep == ret' # None /\ ret'[1].op = "refresh_data" /\ RefreshData

\* name, size and session count of each project of a projects list: what
\* _discover_projects read from the directory and nothing writes afterwards
Listing(projects) ==
    [p \in DOMAIN projects |->
        <<projects[p].name, projects[p].total_size, projects[p].session_count>>]

SessionsSortedDesc(sessions) ==
    \A m, n \in DOMAIN sessions :
        m < n => last_activity_key(sessions[m]) >= last_activity_key(sessions[n])

\* C1 as stated: in either cache an access of a populated key returns the stored
\* value, whatever time has passed, and the key stays populated with that value
\* until it is invalidated.
C1_NoExpiry ==
    [][ /\ \A k \in ParserKeys :
              /\ (cache[k] # None /\ ParsersGetStep(k)) =>
                    (ret'[1].exc = "" /\ ret'[1].val = cache[k][1])
              /\ cache[k] # None => (cache'[k] = cache[k] \/ RefreshDataStep)
        /\ \A k \in EntryKeys :
              /\ (entries[k] # None /\ DataCacheGetStep(k)) =>
                    (ret'[1].exc = "" /\ ret'[1].val = entries[k][1].data)
              /\ entries[k] # None =>
                    \/ entries'[k] = entries[k]
                    \/ InvalidateAllStep
                    \/ \E key \in {None, Some(""), Some(k)} : InvalidateStep(key)
      ]_vars

\* C1 amended: a populated property of parsers.DataCache returns the stored value
\* on every access until invalidate(); a populated accessor of cache.DataCache
\* returns the stored value on every access made less than ttl seconds after the
\* entry was stored, and the entry is replaced only by an invalidation or by an
\* access made once ttl seconds have passed.
C1_UntilInvalidatedOrExpired ==
    [][ /\ \A k \in ParserKeys :
              /\ (cache[k] # None /\ ParsersGetStep(k)) =>
                    (ret'[1].exc = "" /\ ret'[1].val = cache[k][1])
              /\ cache[k] # None => (cache'[k] = cache[k] \/ RefreshDataStep)
        /\ \A k \in EntryKeys :
              /\ (/\ entries[k] # None
                  /\ now - entries[k][1].timestamp < DefaultTtl
                  /\ DataCacheGetStep(k)) =>
                    (ret'[1].exc = "" /\ ret'[1].val = entries[k][1].data)
              /\ entries[k] # None =>
                    \/ entries'[k] = entries[k]
                    \/ InvalidateAllStep
                    \/ \E key \in {None, Some(""), Some(k)} : InvalidateStep(key)
                    \/ now - entries[k][1].timestamp >= DefaultTtl /\ DataCacheGetStep(k)
      ]_vars

\* plans() has just returned, some time after it stored them and before the ttl,
\* plans that are no longer the ones on disk, while parsers.cache holds a history
\* that is no longer what history.jsonl gives
C1_Witness ==
    /\ Returned("DataCache", "plans")
    /\ entries["plans"] # None
    /\ now > entries["plans"][1].timestamp
    /\ now - entries["plans"][1].timestamp < DefaultTtl
    /\ ret[1].val = entries["plans"][1].data
    /\ ret[1].val # parse_plans(disk.plans_dir)
    /\ cache.history # None
    /\ cache.history[1] # _parse_history(disk.history_file).val

\* C2: the projects() access that follows invalidate("projects") of a populated
\* key returns the projects the directory holds at that moment.
C2_RecomputesFromDisk ==
    [][ (/\ Returned("invalidate", "projects")
         /\ ret[1].val # None
         /\ DataCacheGetStep("projects")) =>
            Listing(heap'[ret'[1].val][1]) = Listing(_discover_projects(disk.projects_dir))
      ]_vars

\* C3: invalidate(k) changes the entry of no other key, and nothing in parsers.cache.
C3_NoCascade ==
    [][ \A k \in EntryKeys :
            InvalidateStep(Some(k)) =>
                /\ \A k2 \in EntryKeys \ {k} : entries'[k2] = entries[k2]
                /\ cache' = cache
      ]_vars

\* invalidate("projects") has just removed a populated entry while the entry of
\* "sessions", derived from it, is populated
C3_Witness ==
    /\ Returned("invalidate", "projects")
    /\ ret[1].val # None
    /\ entries["projects"] = None
    /\ entries["sessions"] # None

\* C8: the sessions list of every Project in memory is in descending order of
\* last_activity.
C8_ProjectSessionsSorted ==
    \A o \in Oids :
        heap[o] # None =>
            \A p \in DOMAIN heap[o][1] : SessionsSortedDesc(heap[o][1][p].sessions)

\* C9: while parsers.cache keeps a projects list, no operation changes a field of
\* a Session of that list.
C9_SessionsNeverWritten ==
    [][ \A o \in Oids :
            (cache.projects = Some(o) /\ cache'.projects = Some(o)) => heap'[o] = heap[o]
      ]_vars

\* what an accessor returns when it loads from the files as they are
Fresh(k) ==
    CASE k = "history" -> _parse_history(disk.history_file).val
      [] k = "stats"   -> _parse_stats(disk.stats_file)
      [] k = "plans"   -> parse_plans(disk.plans_dir)

\* C26: the access that follows refresh_data(), through a function of parsers
\* or through an accessor of cache.DataCache, returns what the files hold at
\* that moment, never a value stored before the refresh.
C26_FreshAfterRefresh ==
    [][ (ret # None /\ ret[1].op = "refresh_data") =>
            /\ \A k \in {"history", "stats"} :
                   (ParsersGetStep(k) /\ ret'[1].exc = "") => ret'[1].val = Fresh(k)
            /\ ParsersGetStep("projects") =>
                   Listing(heap'[ret'[1].val][1])
                       = Listing(_discover_projects(disk.projects_dir))
            /\ \A k \in {"history", "stats", "plans"} :
                   (DataCacheGetStep(k) /\ ret'[1].exc = "") => ret'[1].val = Fresh(k)
      ]_vars

\* the same for the functions of parsers alone
C26_ParsersFreshAfterRefresh ==
    [][ (ret # None /\ ret[1].op = "refresh_data") =>
            /\ \A k \in {"history", "stats"} :
                   (ParsersGetStep(k) /\ ret'[1].exc = "") => ret'[1].val = Fresh(k)
            /\ ParsersGetStep("projects") =>
                   Listing(heap'[ret'[1].val][1])
                       = Listing(_discover_projects(disk.projects_dir))
      ]_vars

(***************************************************************************)
(* SpecParse: the three line scanners on every enumerated file.            *)
(***************************************************************************)
NoField    == [ty |-> "absent", v |-> <<>>]
Str(v)     == [ty |-> "str", v |-> v]
NotAStr    == [ty |-> "other", v |-> <<>>]

NoTimestamp == [ty |-> "absent", v |-> 0]
NoMessage   == [ty |-> "absent", content |-> [ty |-> "absent", str |-> <<>>, parts |-> <<>>]]
StrMessage(s)      == [ty |-> "dict", content |-> [ty |-> "str", str |-> s, parts |-> <<>>]]
ListMessage(parts) == [ty |-> "dict", content |-> [ty |-> "list", str |-> <<>>, parts |-> parts]]

ToolInput(file_path) ==
    [ty |-> "dict", file_path |-> file_path, command |-> None, pattern |-> None,
     description |-> None, query |-> None]

TextPart(text) ==
    [ty |-> "dict", type |-> "text", text |-> text, thinking |-> NoField,
     name |-> None, input |-> ToolInput(None), str |-> <<>>]

ToolUsePart(name, input) ==
    [ty |-> "dict", type |-> "tool_use", text |-> NoField, thinking |-> NoField,
     name |-> Some(name), input |-> input, str |-> <<>>]

ThinkingPart(thinking) ==
    [ty |-> "dict", type |-> "thinking", text |-> NoField, thinking |-> thinking,
     name |-> None, input |-> ToolInput(None), str |-> <<>>]

TLine(json, type, timestamp, message) ==
    [json |-> json, type |-> type, timestamp |-> timestamp, message |-> message,
     summary |-> NoField, subtype |-> NoField, content |-> NoField]

\* the lines of the enumerated transcripts: a read failure, an empty line, a
\* line that is not JSON, a JSON list, a user prompt, an assistant turn of two
\* parts, an assistant turn whose "text" is a number, a user line of a
\* command wrapper, a user line of white space, an assistant turn that thinks
\* 301 characters and then says "ok", a summary, a progress line, and a user
\* prompt of a capital I with dot above ("I.", the one character whose
\* lower case is two characters), "hi" and 41 times "y"
TranscriptLines == {
    TLine("ioerror", "", NoTimestamp, NoMessage),
    TLine("blank", "", NoTimestamp, NoMessage),
    TLine("invalid", "", NoTimestamp, NoMessage),
    TLine("nonobject", "", NoTimestamp, NoMessage),
    TLine("object", "user", [ty |-> "iso", v |-> TsStep], StrMessage(<<"h", "i", " ", "A">>)),
    TLine("object", "assistant", NoTimestamp,
          ListMessage(<<TextPart(Str(<<"A", "b">>)),
                        ToolUsePart(T_Read, ToolInput(Some(<<"a", ".", "p", "y">>)))>>)),
    TLine("object", "assistant", NoTimestamp, ListMessage(<<TextPart(NotAStr)>>)),
    TLine("object", "user", NoTimestamp, StrMessage(<<" ", "<", "c", "o", "m", "m", "a", "n", "d", "-", "n", "a", "m", "e", ">">>)),
    TLine("object", "user", NoTimestamp, StrMessage(<<" ", " ">>)),
    TLine("object", "assistant", NoTimestamp,
          ListMessage(<<ThinkingPart(Str([i \in 1..301 |-> "t"])),
                        TextPart(Str(<<" ", "o", "k">>))>>)),
    [TLine("object", "summary", NoTimestamp, NoMessage) EXCEPT !.summary = Str(<<"S">>)],
    TLine("object", "progress", NoTimestamp, StrMessage(<<"h", "i">>)),
    TLine("object", "user", NoTimestamp,
          StrMessage(<<"I.", "h", "i">> \o [i \in 1..41 |-> "y"])) }

\* the lines of the enumerated histories: a read failure, an empty line, a
\* line that is not JSON, a JSON list, a line whose timestamp is a string, a
\* prompt of timestamp 0, one without timestamp and one of a later time
HistoryLines == {
    [BadLine EXCEPT !.json = "ioerror"],
    [BadLine EXCEPT !.json = "blank"],
    BadLine,
    [BadLine EXCEPT !.json = "nonobject"],
    [HLine(0, "s1") EXCEPT !.timestamp = [ty |-> "str", v |-> 0]],
    HLine(0, "s1"),
    [HLine(0, "s2") EXCEPT !.timestamp = [ty |-> "absent", v |-> 0]],
    HLine(TsStep, "s2") }

MaxLines == 3       \* lines of a file in an enumerated input

\* def parse_session_transcript(jsonl_path, max_messages: int = 500)
DefaultMaxMessages == 500
\* def search_conversations(query, max_results: int = 50)
DefaultMaxResults == 50

\* "a", "hi", and "b " which ends with a space
Queries == {<<"a">>, <<"h", "i">>, <<"b", " ">>}

\* the transcript searched is the one session of the second project; the
\* first project holds a newer transcript of one user line, a transcript
\* too small to be searched, and the newest one, which is deleted before the
\* search
SearchedFile == [sid |-> "s1", mtime |-> 1, size |-> 300]
OtherFile == [sid |-> "s2", mtime |-> 2, size |-> 120]
SmallFile == [sid |-> "s3", mtime |-> 0, size |-> 50]
GoneFile == [sid |-> "s4", mtime |-> 3, size |-> 200]

OtherLines ==
    <<TLine("object", "user", [ty |-> "iso", v |-> 0], StrMessage(<<"h", "i", " ", "a">>))>>

\* discover_all_sessions() over these projects and an empty history
SearchedSessions ==
    LET projects == _discover_projects(Some(<<Dir(<<OtherFile, SmallFile, GoneFile>>),
                                              Dir(<<SearchedFile>>)>>))
        r        == _discover_all_sessions(<<>>, projects)
    IN  session_view(r.projects, r.sessions)

\* what the transcripts hold when the searched one holds these lines
SearchedFiles(lines) ==
    [p \in {<<1, OtherFile.sid>>, <<1, SmallFile.sid>>, <<1, GoneFile.sid>>,
            <<2, SearchedFile.sid>>} |->
        IF p = <<2, SearchedFile.sid>> THEN Some(lines)
        ELSE IF p = <<1, GoneFile.sid>> THEN None
        ELSE Some(OtherLines)]

\* one call of a scanner over a file of these lines: [exc, val]
scan(op, lines, n, query) ==
    CASE op = "_parse_history" -> _parse_history(Some(lines))
      [] op = "parse_session_transcript" -> parse_session_transcript(Some(lines), n)
      [] op = "search_conversations" ->
            search_conversations(query, n, SearchedSessions, SearchedFiles(lines))

ParseInit ==
    /\ ThreadIdle
    /\ ScreenIdle
    /\ CacheIdle
    /\ ReconcileIdle
    /\ pIn \in {Some([kind |-> "history", lines |-> ls]) : ls \in SeqsUpTo(HistoryLines, MaxLines)}
          \cup {Some([kind |-> "transcript", lines |-> ls]) :
                    ls \in SeqsUpTo(TranscriptLines, MaxLines)}
    /\ pOut = None
    /\ pStage = "input"

Scan(op, n, query) ==
    /\ pStage = "input"
    /\ LET r == scan(op, pIn[1].lines, n, query)
       IN  pOut' = Some([op |-> op, n |-> n, query |-> query, exc |-> r.exc, val |-> r.val])
    /\ pStage' = "done"
    /\ UNCHANGED <<pIn, cacheVars, reconcileVars, threadVars, screenVars>>

ParseHistory ==
    /\ pIn[1].kind = "history"
    /\ Scan("_parse_history", 0, <<>>)

ParseSessionTranscript(max_messages) ==
    /\ pIn[1].kind = "transcript"
    /\ Scan("parse_session_transcript", max_messages, <<>>)

SearchConversations(query, max_results) ==
    /\ pIn[1].kind = "transcript"
    /\ Scan("search_conversations", max_results, query)

ParseNext ==
    \/ ParseHistory
    \/ \E max_messages \in {1, DefaultMaxMessages} : ParseSessionTranscript(max_messages)
    \/ \E query \in Queries, max_results \in {1, 2, DefaultMaxResults} :
            SearchConversations(query, max_results)

SpecParse == ParseInit /\ [][ParseNext]_vars

(***************************************************************************)
(* Scanner claims, over the runs of SpecParse.                             *)
(***************************************************************************)
Scanned == pStage = "done"

\* a line that is invalid JSON, is JSON but not an object, or has a field of
\* the wrong type
HistoryMalformed(line) ==
    \/ line.json \in {"invalid", "nonobject"}
    \/ line.json = "object" /\ line.timestamp.ty = "str"

TranscriptMalformed(line) ==
    \/ line.json \in {"invalid", "nonobject"}
    \/ /\ line.json = "object"
       /\ line.message.ty = "dict"
       /\ line.message.content.ty = "list"
       /\ \E k \in DOMAIN line.message.content.parts :
            /\ line.message.content.parts[k].ty = "dict"
            /\ line.message.content.parts[k].text.ty = "other"

HistoryWellFormed(line) == ~HistoryMalformed(line)

TranscriptWellFormed(line) == ~TranscriptMalformed(line)

WellFormedLines ==
    IF pIn[1].kind = "history" THEN SelectSeq(pIn[1].lines, HistoryWellFormed)
    ELSE SelectSeq(pIn[1].lines, TranscriptWellFormed)

\* where reading the file fails: the place of the first "ioerror", 0 when none
ReadFailsAt ==
    IF \E k \in DOMAIN pIn[1].lines : pIn[1].lines[k].json = "ioerror"
    THEN CHOOSE k \in DOMAIN pIn[1].lines :
            /\ pIn[1].lines[k].json = "ioerror"
            /\ \A j \in 1..(k - 1) : pIn[1].lines[j].json # "ioerror"
    ELSE 0

\* C10: a malformed line never aborts the scan.  Whatever lines a readable file
\* holds, _parse_history, parse_session_transcript and search_conversations
\* return, and return what they return for the file without its malformed
\* lines: each such line is skipped and the well-formed lines before and
\* after it are decoded.
C10_MalformedSkipped ==
    (Scanned /\ ReadFailsAt = 0) =>
        /\ pOut[1].exc = ""
        /\ pOut[1].val = scan(pOut[1].op, WellFormedLines, pOut[1].n, pOut[1].query).val

\* the lines read before the failure
LinesRead == SubSeq(pIn[1].lines, 1, ReadFailsAt - 1)

\* C11: a read failure never reaches the caller.  When reading a file whose
\* lines so far were well formed raises OSError, _parse_history,
\* parse_session_transcript and search_conversations return, and return what
\* the lines read before the failure give.
C11_ReadFailureContained ==
    (/\ Scanned
     /\ ReadFailsAt > 0
     /\ \A k \in DOMAIN LinesRead :
            IF pIn[1].kind = "history" THEN HistoryWellFormed(LinesRead[k])
            ELSE TranscriptWellFormed(LinesRead[k])) =>
        /\ pOut[1].exc = ""
        /\ pOut[1].val = scan(pOut[1].op, LinesRead, pOut[1].n, pOut[1].query).val

\* C13: parse_session_transcript never returns more than max_messages
\* messages, an assistant line of several parts included.
C13_AtMostMaxMessages ==
    (/\ Scanned
     /\ pOut[1].op = "parse_session_transcript"
     /\ pOut[1].exc = "") =>
        Len(pOut[1].val) <= pOut[1].n

\* C14: search_conversations never returns more than max_results results.
C14_AtMostMaxResults ==
    (/\ Scanned
     /\ pOut[1].op = "search_conversations"
     /\ pOut[1].exc = "") =>
        Len(pOut[1].val) <= pOut[1].n

\* a search has returned max_results results where the first transcript alone
\* holds more matches than that
C14_Witness ==
    /\ Scanned
    /\ pOut[1].op = "search_conversations"
    /\ pOut[1].exc = ""
    /\ Len(pOut[1].val) = pOut[1].n
    /\ Len(scan(pOut[1].op, pIn[1].lines, DefaultMaxResults, pOut[1].query).val) > pOut[1].n + 1

\* C15: every snippet search_conversations returns contains the query as a
\* case-insensitive substring, whatever the query and the text: the query may
\* begin or end with whitespace and the match may be at the very start or end
\* of the text.
C15_SnippetHasQuery ==
    (/\ Scanned
     /\ pOut[1].op = "search_conversations"
     /\ pOut[1].exc = "") =>
        \A k \in DOMAIN pOut[1].val :
            contains(lower(pOut[1].val[k].snippet), lower(pOut[1].query))

\* the lines of the history whose timestamp is 0 or missing, as positions
SentinelLines ==
    {k \in DOMAIN pIn[1].lines :
        /\ pIn[1].lines[k].json = "object"
        /\ \/ pIn[1].lines[k].timestamp.ty = "absent"
           \/ pIn[1].lines[k].timestamp.ty = "num" /\ pIn[1].lines[k].timestamp.v = 0}

\* C21: a history line with a zero or missing timestamp yields a Prompt whose
\* timestamp is the minimum instant, a line with another timestamp does not;
\* the Prompts are ordered newest first, so every Prompt with the minimum
\* instant comes after every Prompt with a real timestamp.
C21_SentinelsLast ==
    (/\ Scanned
     /\ pOut[1].op = "_parse_history"
     /\ pOut[1].exc = "") =>
        LET prompts == pOut[1].val
        IN  /\ Cardinality({n \in DOMAIN prompts : prompts[n].timestamp = datetime_min})
                  = Cardinality(SentinelLines)
            /\ \A m, n \in DOMAIN prompts :
                   m < n => prompts[m].timestamp >= prompts[n].timestamp
            /\ \A m, n \in DOMAIN prompts :
                   (/\ prompts[m].timestamp = datetime_min
                    /\ prompts[n].timestamp # datetime_min) => n < m

\* a history has been decoded whose first line has no timestamp, whose second
\* has the timestamp 0 and whose third has a real one
C21_Witness ==
    /\ Scanned
    /\ pOut[1].op = "_parse_history"
    /\ pOut[1].exc = ""
    /\ Len(pIn[1].lines) = 3
    /\ SentinelLines = {1, 2}
    /\ pIn[1].lines[1].timestamp.ty = "absent"
    /\ Len(pOut[1].val) = 3
    /\ pOut[1].val[1].timestamp = fromtimestamp_ms(TsStep)

\* role and content of each message of a list
RolesAndContents(msgs) ==
    [k \in DOMAIN msgs |-> [role |-> msgs[k].role, content |-> msgs[k].content]]

\* what C22 says a part of an assistant line yields
PartYields(part) ==
    IF part.type = "text" /\ strip(part.text.v) # <<>>
    THEN <<[role |-> "assistant", content |-> strip(part.text.v)]>>
    ELSE IF part.type = "thinking" /\ strip(part.thinking.v) # <<>>
    THEN <<[role    |-> "system",
            content |-> L_Thinking
                        \o SubSeq(strip(part.thinking.v), 1,
                                  Min(300, Len(strip(part.thinking.v))))]>>
    ELSE IF part.type = "tool_use"
    THEN <<[role |-> "tool", content |-> _summarize_tool_use(part.name[1], part.input).val]>>
    ELSE <<>>

\* what C22 says a line yields; of a summary and of a system line it says
\* nothing, and they stand for themselves
LineYields(line) ==
    IF line.json # "object" THEN <<>>
    ELSE CASE line.type = "user" ->
                IF \/ strip(line.message.content.str) = <<>>
                   \/ startswith(strip(line.message.content.str), <<"<", "c", "o", "m", "m", "a", "n", "d", "-">>)
                THEN <<>>
                ELSE <<[role |-> "user", content |-> strip(line.message.content.str)]>>
           [] line.type = "assistant" ->
                Flatten([k \in DOMAIN line.message.content.parts |->
                            PartYields(line.message.content.parts[k])])
           [] line.type \in {"summary", "system"} ->
                RolesAndContents(transcript_line(line).val)
           [] OTHER -> <<>>

\* C22: the messages come out in file order and, within an assistant line,
\* in part order; a part yields at most one message (non-empty text an
\* assistant message, thinking a system message of "[Thinking] " and at most
\* 300 characters, tool_use a tool message of the summary); a user line
\* yields one user message of its trimmed content unless that is empty or
\* begins with "<command-"; a line of another type than user, assistant,
\* summary and system yields nothing.
C22_Dispatch ==
    (/\ Scanned
     /\ pOut[1].op = "parse_session_transcript"
     /\ pOut[1].n = DefaultMaxMessages
     /\ pOut[1].exc = "") =>
        RolesAndContents(pOut[1].val)
            = Flatten([k \in DOMAIN pIn[1].lines |-> LineYields(pIn[1].lines[k])])

\* a transcript of a progress line, the assistant turn that thinks and says
\* "ok", and a command wrapper has been decoded to two messages
C22_Witness ==
    /\ Scanned
    /\ pOut[1].op = "parse_session_transcript"
    /\ pOut[1].n = DefaultMaxMessages
    /\ pOut[1].exc = ""
    /\ Len(pIn[1].lines) = 3
    /\ pIn[1].lines[1].type = "progress"
    /\ pIn[1].lines[2].type = "assistant"
    /\ pIn[1].lines[3].type = "user"
    /\ Len(pOut[1].val) = 2
    /\ pOut[1].val[1].role = "system"
    /\ Len(pOut[1].val[1].content) = 311
    /\ pOut[1].val[2].content = <<"o", "k">>

\* the place of the first occurrence of the query in the text, whatever the
\* case, counted in characters of the text from 0; -1 when there is none
FirstMatch(text, query) ==
    LET at == {i \in 0..(Len(text) - Len(query)) :
                  lower(SubSeq(text, i + 1, i + Len(query))) = lower(query)}
    IN  IF at = {} THEN -1 ELSE CHOOSE i \in at : \A j \in at : i <= j

\* the snippet C23 describes: the match with up to 40 characters on each
\* side, trimmed, and "..." where the window stops short of the text
WindowSnippet(text, query) ==
    LET from == Max(0, FirstMatch(text, query) - 40)
        to   == Min(Len(text), FirstMatch(text, query) + Len(query) + 40)
    IN  (IF from > 0 THEN <<".", ".", ".">> ELSE <<>>)
        \o strip(replace_newlines(SubSeq(text, from + 1, to)))
        \o (IF to < Len(text) THEN <<".", ".", ".">> ELSE <<>>)

\* the lines of the searched transcript in which the query occurs, in order
MatchingLines ==
    SelectSeq(pIn[1].lines,
              LAMBDA line : /\ line.json = "object"
                            /\ FirstMatch(search_text(line).val, pOut[1].query) >= 0)

\* C23: deep search yields one result for each scanned line in which the query
\* occurs and none for the others; its snippet is built around the first
\* occurrence in the text of the line: at most 40 characters before and 40
\* after the match, a leading "..." exactly when the window does not start
\* at the beginning of the text, a trailing "..." exactly when it does not
\* reach its end.
C23_SnippetWindow ==
    (/\ Scanned
     /\ pOut[1].op = "search_conversations"
     /\ pOut[1].n = DefaultMaxResults
     /\ ReadFailsAt = 0
     /\ pOut[1].exc = "") =>
        LET found == SelectSeq(pOut[1].val,
                               LAMBDA r : r.session.session_id = SearchedFile.sid)
        IN  /\ Len(found) = Len(MatchingLines)
            /\ \A k \in DOMAIN found :
                   found[k].snippet
                       = WindowSnippet(search_text(MatchingLines[k]).val, pOut[1].query)

\* the results of the lines of one transcript in which the query occurs, in
\* file order
MatchesIn(session, lines, query) ==
    Flatten([k \in DOMAIN lines |->
                IF /\ lines[k].json = "object"
                   /\ FirstMatch(search_text(lines[k]).val, query) >= 0
                THEN search_line(lines[k], session, query).val
                ELSE <<>>])

\* the same over the sessions view, without the sessions whose transcript is
\* missing or smaller than 100 bytes
AllMatches(lines, query) ==
    LET files == SearchedFiles(lines)
    IN  Flatten([k \in DOMAIN SearchedSessions |->
                    IF \/ files[SearchedSessions[k].jsonl_path[1]] = None
                       \/ SearchedSessions[k].jsonl_size < 100
                    THEN <<>>
                    ELSE MatchesIn(SearchedSessions[k],
                                   files[SearchedSessions[k].jsonl_path[1]][1], query)])

\* C24: the sessions are visited in the order of the sessions view, newest
\* last_activity first, and the lines in file order; the result is the first
\* max_results results of the matching lines in that order, the sessions
\* whose transcript is missing or smaller than 100 bytes left out.
C24_FirstMatches ==
    (/\ Scanned
     /\ pOut[1].op = "search_conversations"
     /\ ReadFailsAt = 0
     /\ pOut[1].exc = "") =>
        /\ SessionsSortedDesc(SearchedSessions)
        /\ pOut[1].val
              = SubSeq(AllMatches(pIn[1].lines, pOut[1].query), 1,
                       Min(pOut[1].n, Len(AllMatches(pIn[1].lines, pOut[1].query))))

\* a search for 2 results has returned the match of the newer transcript and
\* then the first of three matches of the older one
C24_Witness ==
    /\ Scanned
    /\ pOut[1].op = "search_conversations"
    /\ pOut[1].n = 2
    /\ ReadFailsAt = 0
    /\ pOut[1].exc = ""
    /\ Len(pOut[1].val) = 2
    /\ pOut[1].val[1].session.session_id = OtherFile.sid
    /\ pOut[1].val[2].session.session_id = SearchedFile.sid
    /\ Len(AllMatches(pIn[1].lines, pOut[1].query)) = 4

(***************************************************************************)
(* SpecStats: the loaders and get_global_stats over sources that are       *)
(* absent, empty or filled, the files staying as they are.                 *)
(***************************************************************************)
Digits(n) == [ty |-> "digits", v |-> n]

FilledStats ==
    [json          |-> "object",
     dailyActivity |-> <<Day(2), Day(1)>>,
     modelUsage    |-> <<[model_id |-> "opus", inputTokens |-> 1, outputTokens |-> 2,
                          cacheReadInputTokens |-> 0, cacheCreationInputTokens |-> 0],
                         [model_id |-> "haiku", inputTokens |-> 5, outputTokens |-> 0,
                          cacheReadInputTokens |-> 1, cacheCreationInputTokens |-> 0]>>,
     hourCounts    |-> <<[h |-> Digits(9), c |-> Digits(4)], [h |-> Digits(13), c |-> Digits(1)]>>,
     longestSession |-> [json |-> "object", sessionId |-> "s1", duration |-> TsStep,
                         messageCount |-> 7]]

HistoryFiles == {None, Some(<<>>), Some(<<HLine(TsStep, "s1")>>),
                 Some(<<HLine(0, "s1"), HLine(TsStep, "s2")>>)}

StatsFiles == {None, Some([json |-> "invalid"]), Some(EmptyDict),
               Some([json |-> "object", dailyActivity |-> <<>>, modelUsage |-> <<>>,
                     hourCounts |-> <<>>]),
               Some(FilledStats),
               Some([FilledStats EXCEPT !.hourCounts =
                        <<[h |-> [ty |-> "other", v |-> 0], c |-> Digits(1)]>>])}

SomeProjectsDirs == {None, Some(<<NoDir, NoDir>>), Some(<<NoDir, Dir(<<>>)>>),
                     Some(<<Dir(<<[sid |-> "s1", mtime |-> 2, size |-> 300]>>),
                            Dir(<<[sid |-> "s1", mtime |-> 0, size |-> 150],
                                  [sid |-> "s2", mtime |-> 1, size |-> 50]>>)>>)}

PlansDirs == {None, Some(<<>>), Some(<<[stem |-> "plan-a", mtime |-> 1, size |-> 10]>>)}

StatsInit ==
    /\ ThreadIdle
    /\ ScreenIdle
    /\ disk \in [history_file : HistoryFiles, stats_file : StatsFiles,
                  projects_dir : SomeProjectsDirs, plans_dir : PlansDirs]
    /\ used = ParserKeys
    /\ now = 0
    /\ cache = [k \in ParserKeys |-> None]
    /\ heap = [o \in Oids |-> None]
    /\ entries = [k \in EntryKeys |-> None]
    /\ ret = None
    /\ ReconcileIdle
    /\ ParseIdle

\* a screen calls parse_plans()
ParsePlans ==
    /\ ret' = Some([op |-> "parse_plans", key |-> None, exc |-> "",
                    val |-> parse_plans(disk.plans_dir)])
    /\ UNCHANGED <<disk, used, now, cache, heap, entries, reconcileVars, parseVars, threadVars, screenVars>>

\* the dashboard calls get_global_stats()
GetGlobalStats ==
    /\ \E r \in {get_global_stats([cache |-> cache, heap |-> heap], disk)} :
           /\ cache' = r.m.cache
           /\ heap' = collect(r.m.heap, r.m.cache, entries)
           /\ ret' = Some([op |-> "get_global_stats", key |-> None, exc |-> r.exc,
                           val |-> r.val])
    /\ UNCHANGED <<disk, used, now, entries, reconcileVars, parseVars, threadVars, screenVars>>

StatsNext ==
    \/ \E k \in ParserKeys : ParsersGet(k)
    \/ ParsePlans
    \/ GetGlobalStats

SpecStats == StatsInit /\ [][StatsNext]_vars

(***************************************************************************)
(* Source claims, over the runs of SpecStats.                              *)
(***************************************************************************)
\* the file or directory is not there, or holds nothing
NoHistory == disk.history_file = None \/ disk.history_file = Some(<<>>)

NoStats ==
    \/ disk.stats_file = None
    \/ /\ disk.stats_file[1].json = "object"
       /\ \A key \in {"dailyActivity", "modelUsage", "hourCounts"} :
              get(disk.stats_file[1], key, <<>>) = <<>>
       /\ "longestSession" \notin DOMAIN disk.stats_file[1]

NoProjects ==
    \/ disk.projects_dir = None
    \/ \A i \in DirIds : disk.projects_dir[1][i].files = <<>>

\* C12: a loader whose file or directory does not exist returns an empty
\* collection, and get_global_stats over sources that are absent or hold
\* nothing returns every total zero, "?" for both dates, no model usage and
\* no hour count.
C12_AbsentIsEmpty ==
    ret # None =>
        /\ (ret[1].op = "parsers" /\ ret[1].exc = "") =>
              /\ (ret[1].key = Some("history") /\ disk.history_file = None) => ret[1].val = <<>>
              /\ (ret[1].key = Some("stats") /\ disk.stats_file = None) => ret[1].val = <<>>
              /\ (ret[1].key = Some("projects") /\ disk.projects_dir = None) =>
                    heap[ret[1].val] = Some(<<>>)
              /\ (ret[1].key = Some("sessions") /\ disk.projects_dir = None) =>
                    ret[1].val = <<>>
        /\ (ret[1].op = "parsers"
              /\ \/ ret[1].key = Some("history") /\ disk.history_file = None
                 \/ ret[1].key = Some("stats") /\ disk.stats_file = None
                 \/ ret[1].key = Some("projects") /\ disk.projects_dir = None
                 \/ /\ ret[1].key = Some("sessions")
                    /\ disk.projects_dir = None /\ disk.history_file = None) =>
              ret[1].exc = ""
        /\ (ret[1].op = "parse_plans" /\ disk.plans_dir = None) =>
              ret[1].exc = "" /\ ret[1].val = <<>>
        /\ (ret[1].op = "get_global_stats" /\ NoHistory /\ NoStats /\ NoProjects) =>
              /\ ret[1].exc = ""
              /\ ret[1].val.total_messages = 0
              /\ ret[1].val.total_sessions = 0
              /\ ret[1].val.total_tools = 0
              /\ ret[1].val.total_prompts = 0
              /\ ret[1].val.total_projects = 0
              /\ ret[1].val.total_data_bytes = 0
              /\ ret[1].val.active_days = 0
              /\ ret[1].val.first_date = <<"?">>
              /\ ret[1].val.last_date = <<"?">>
              /\ ret[1].val.model_usages = <<>>
              /\ DOMAIN ret[1].val.hour_counts = {}

\* get_global_stats() has just returned while stats-cache.json and
\* history.jsonl do not exist and the projects directory holds one project
\* directory with no transcript in it
C12_Witness ==
    /\ ret # None
    /\ ret[1].op = "get_global_stats"
    /\ disk.history_file = None
    /\ disk.stats_file = None
    /\ disk.projects_dir # None
    /\ disk.projects_dir[1][2].present
    /\ NoProjects
    /\ ret[1].val.total_projects = 0

(***************************************************************************)
(* SpecFunctions: the pure functions, each applied once to an argument.    *)
(***************************************************************************)
\* directory names: an encoded home, with or without the leading "-", of this
\* user or another, then what follows it
EncodedHomes == {<<"h", "o", "m", "e", "-", "u">>, <<"-", "h", "o", "m", "e", "-", "u">>,
                 <<"h", "o", "m", "e", "-", "v">>, <<"-", "h", "o", "m", "e", "-", "v">>}

NameMiddles == {<<>>, <<"-">>, <<"-", "-">>, <<"-", "P", "r", "o", "j", "e", "c", "t", "s">>,
                <<"-", "P", "r", "o", "j", "e", "c", "t", "s", "-">>}

NameTails == {<<>>, <<"m", "y", "a", "p", "p">>, <<"c", "l", "a", "u", "d", "e">>, <<"a", "-", "b">>}

EncodedNames == {h \o m \o t : h \in EncodedHomes, m \in NameMiddles, t \in NameTails}

\* tool names: the eight the function knows and two it does not
ToolNames == {T_Read, T_Write, T_Edit, T_Bash, T_Glob, T_Grep, T_Task, T_WebSearch,
              <<"F", "o", "o">>, <<"u", "n", "k", "n", "o", "w", "n">>}

\* commands of 2, 100 and 101 characters
Command(n) == [i \in 1..n |-> IF i % 2 = 1 THEN "l" ELSE "s"]

\* tool inputs: a value that is not an object, and objects with or without
\* each key
ToolInputs ==
    {[ty |-> "other", file_path |-> None, command |-> None, pattern |-> None,
      description |-> None, query |-> None]}
    \cup [ty : {"dict"},
          file_path : {None, Some(<<"a", ".", "p", "y">>)},
          command : {None, Some(Command(2)), Some(Command(100)), Some(Command(101))},
          pattern : {None, Some(<<"*", ".", "p", "y">>)},
          description : {None},
          query : {None, Some(<<"t", "l", "a">>)}]

\* history lines that decode: a timestamp of 0 ms, of 1, 999, 1500 and
\* 2000000 ms, or none
DecodedLines ==
    {[l EXCEPT !.timestamp = t] :
        l \in ValidLines,
        t \in {[ty |-> "absent", v |-> 0]}
                 \cup {[ty |-> "num", v |-> ts] : ts \in {0, 1, 999, TsStep, 2000000}}}

FunctionInputs ==
    {Some([kind |-> "name", name |-> name]) : name \in EncodedNames}
    \cup {Some([kind |-> "line", line |-> l]) : l \in DecodedLines}
    \cup {Some([kind |-> "tool", tool_name |-> n, tool_input |-> i]) :
              n \in ToolNames, i \in ToolInputs}

FunctionsInit ==
    /\ ThreadIdle
    /\ ScreenIdle
    /\ CacheIdle
    /\ ReconcileIdle
    /\ pIn \in FunctionInputs
    /\ pOut = None
    /\ pStage = "input"

ShortenProjectDir ==
    /\ pStage = "input"
    /\ pIn[1].kind = "name"
    /\ pOut' = Some([op |-> "shorten_project_dir", val |-> shorten_project_dir(pIn[1].name)])
    /\ pStage' = "done"
    /\ UNCHANGED <<pIn, cacheVars, reconcileVars, threadVars, screenVars>>

SummarizeToolUse ==
    /\ pStage = "input"
    /\ pIn[1].kind = "tool"
    /\ \E r \in {_summarize_tool_use(pIn[1].tool_name, pIn[1].tool_input)} :
           pOut' = Some([op |-> "_summarize_tool_use", exc |-> r.exc, val |-> r.val])
    /\ pStage' = "done"
    /\ UNCHANGED <<pIn, cacheVars, reconcileVars, threadVars, screenVars>>

\* the Prompt _parse_history builds of one line
DecodeLine ==
    /\ pStage = "input"
    /\ pIn[1].kind = "line"
    /\ pOut' = Some([op |-> "Prompt", val |-> Prompt(pIn[1].line)])
    /\ pStage' = "done"
    /\ UNCHANGED <<pIn, cacheVars, reconcileVars, threadVars, screenVars>>

FunctionsNext ==
    \/ ShortenProjectDir
    \/ DecodeLine
    \/ SummarizeToolUse

SpecFunctions == FunctionsInit /\ [][FunctionsNext]_vars

(***************************************************************************)
(* Function claims, over the runs of SpecFunctions.                        *)
(***************************************************************************)
Shortened == pStage = "done" /\ pOut[1].op = "shorten_project_dir"

Summarized == pStage = "done" /\ pOut[1].op = "_summarize_tool_use"

\* C19: _summarize_tool_use is a function of (tool_name, tool_input) alone.
\* For an input object, Read, Write and Edit render the verb, a space and the
\* file_path; Bash renders "$ " and the first 100 characters of the command;
\* a name that is none of the eight known renders the name and "()", whatever
\* the input.
C19_Summary ==
    Summarized =>
        LET tool_name  == pIn[1].tool_name
            tool_input == pIn[1].tool_input
        IN  /\ (/\ tool_input.ty = "dict"
                /\ tool_name \in {T_Read, T_Write, T_Edit}
                /\ tool_input.file_path # None) =>
                  /\ pOut[1].exc = ""
                  /\ pOut[1].val = tool_name \o <<" ">> \o tool_input.file_path[1]
            /\ (/\ tool_input.ty = "dict"
                /\ tool_name = T_Bash
                /\ tool_input.command # None) =>
                  /\ pOut[1].exc = ""
                  /\ Len(pOut[1].val) = 2 + Min(100, Len(tool_input.command[1]))
                  /\ \A k \in DOMAIN pOut[1].val :
                         pOut[1].val[k] = IF k = 1 THEN "$"
                                          ELSE IF k = 2 THEN " "
                                          ELSE tool_input.command[1][k - 2]
            /\ tool_name \notin {T_Read, T_Write, T_Edit, T_Bash, T_Glob, T_Grep, T_Task,
                                 T_WebSearch} =>
                  /\ pOut[1].exc = ""
                  /\ pOut[1].val = tool_name \o <<"(", ")">>

\* a Bash command of more than 100 characters has been summarized
C19_Witness ==
    /\ Summarized
    /\ pIn[1].tool_name = T_Bash
    /\ pIn[1].tool_input.ty = "dict"
    /\ pIn[1].tool_input.command # None
    /\ Len(pIn[1].tool_input.command[1]) > 100
    /\ Len(pOut[1].val) = 102

Decoded == pStage = "done" /\ pOut[1].op = "Prompt"

\* the instant, in microseconds since the epoch, as whole milliseconds
to_ms(instant) == instant \div 1000

PipelineInit ==
    /\ ThreadIdle
    /\ ScreenIdle
    /\ disk \in [history_file : {None} \cup {Some(ls) : ls \in SeqsUpTo(ValidLines, MaxPrompts)},
                  stats_file : {None}, projects_dir : ProjectsDirs, plans_dir : {None}]
    /\ used = {"projects", "sessions"}
    /\ now = 0
    /\ cache = [k \in ParserKeys |-> None]
    /\ heap = [o \in Oids |-> None]
    /\ entries = [k \in EntryKeys |-> None]
    /\ ret = None
    /\ rIn = None
    /\ rOut = Some([first |-> None, projects |-> None, sessions |-> None])
    /\ rStage = "start"
    /\ ParseIdle

\* refresh_data(), at the start of a pass
PipelineRefresh ==
    /\ rStage = "start" \/ (rStage = "sessions" /\ rOut[1].first = None)
    /\ cache' = cache_invalidate(cache)
    /\ heap' = collect(heap, cache', entries)
    /\ ret' = Some([op |-> "refresh_data", key |-> None, exc |-> "", val |-> None])
    /\ rOut' = IF rStage = "start" THEN rOut
               ELSE Some([first    |-> Some([projects |-> rOut[1].projects[1],
                                             sessions |-> rOut[1].sessions[1]]),
                          projects |-> None,
                          sessions |-> None])
    /\ rStage' = "refreshed"
    /\ UNCHANGED <<disk, used, now, entries, rIn, parseVars, threadVars, screenVars>>

\* discover_projects()
PipelineProjects ==
    /\ rStage = "refreshed"
    /\ \E r \in {cache_projects([cache |-> cache, heap |-> heap], disk)} :
           /\ cache' = r.m.cache
           /\ heap' = collect(r.m.heap, r.m.cache, entries)
           /\ ret' = Some([op |-> "parsers", key |-> Some("projects"), exc |-> r.exc,
                           val |-> r.val])
           /\ rOut' = Some([rOut[1] EXCEPT !.projects = Some(r.m.heap[r.val][1])])
    /\ rStage' = "projects"
    /\ UNCHANGED <<disk, used, now, entries, rIn, parseVars, threadVars, screenVars>>

\* discover_all_sessions()
PipelineSessions ==
    /\ rStage = "projects"
    /\ \E r \in {cache_sessions([cache |-> cache, heap |-> heap], disk)} :
           /\ cache' = r.m.cache
           /\ heap' = collect(r.m.heap, r.m.cache, entries)
           /\ ret' = Some([op |-> "parsers", key |-> Some("sessions"), exc |-> r.exc,
                           val |-> r.val])
           /\ rOut' = Some([rOut[1] EXCEPT !.sessions = Some(r.val)])
    /\ rStage' = "sessions"
    /\ UNCHANGED <<disk, used, now, entries, rIn, parseVars, threadVars, screenVars>>

PipelineNext == PipelineRefresh \/ PipelineProjects \/ PipelineSessions

SpecPipeline == PipelineInit /\ [][PipelineNext]_vars

(***************************************************************************)
(* Pipeline claims, over the runs of SpecPipeline.                         *)
(***************************************************************************)
SecondPassDone == rStage = "sessions" /\ rOut[1].first # None

\* C18: the pipeline run twice over unchanged files yields equal collections:
\* what discover_projects() returns in the second pass equals what it returned
\* in the first, and so for discover_all_sessions(), session by session
\* (session id, prompt_count, first_activity, last_activity and the rest) and
\* project by project (session_count, total_size and the rest).
C18_Idempotent ==
    SecondPassDone =>
        /\ rOut[1].projects[1] = rOut[1].first[1].projects
        /\ rOut[1].sessions[1] = rOut[1].first[1].sessions

\* both passes are done over two projects, and a session of the view has the
\* prompts of the history counted in it
C18_Witness ==
    /\ SecondPassDone
    /\ Len(rOut[1].projects[1]) = 2
    /\ \E n \in DOMAIN rOut[1].sessions[1] : rOut[1].sessions[1][n].prompt_count > 0


(***************************************************************************)
(* SpecThreads: a worker thread inside the properties of parsers.DataCache *)
(* while the main thread runs refresh_data().  The screens start the       *)
(* worker with run_worker(..., thread=True) (search.py 128-131) and the    *)
(* main thread handles the Refresh key (app.py 94-98); the interpreter may *)
(* switch threads between any two reads or writes of an attribute, so each *)
(* of them is a step of its own:                                           *)
(*     if self._history is None:               "test"                      *)
(*         self._history = _parse_history()    "load", then "store"        *)
(*     return self._history                    "return"                    *)
(* worker is the stack of the accessors the thread is inside, innermost    *)
(* last; a frame holds the value it loaded (v) and, in sessions, what      *)
(* self.history and self.projects returned (h, p), each None or            *)
(* Some([val, tag]).  main.pc is "idle" or the step of invalidate() the    *)
(* main thread is about to take.  main.started and main.finished count the *)
(* calls of invalidate() begun and returned; the tag of a value is the     *)
(* number of calls begun when its load began, main.tag[k] that of the      *)
(* value cache[k] holds.  ret.val is what the accessor returned, None or   *)
(* Some(value).                                                            *)
(***************************************************************************)
\* the calls of invalidate() of one run
MaxInvalidations == 2

ThreadKeys == {"history", "projects", "sessions"}

\* the assignments of invalidate(), in the order of the source
InvalidateOrder == <<"history", "stats", "projects", "sessions">>

Frame(k) == [key |-> k, pc |-> "test", v |-> None, h |-> None, p |-> None]

Top == worker[Len(worker)]

SetTop(f) == [worker EXCEPT ![Len(worker)] = f]

\* the projects lists a thread or parsers.cache refers to stay in memory
thread_collect(h, c, frames) ==
    [o \in Oids |->
        IF \/ c.projects = Some(o)
           \/ \E i \in DOMAIN frames :
                 \/ (frames[i].key = "projects" /\ frames[i].v # None
                        /\ frames[i].v[1].val = o)
                 \/ (frames[i].p # None /\ frames[i].p[1].val = Some(o))
        THEN h[o] ELSE None]

ThreadsInit ==
    /\ disk \in DiskStates
    /\ used = {}
    /\ now = 0
    /\ cache = [k \in ParserKeys |-> None]
    /\ heap = [o \in Oids |-> None]
    /\ entries = [k \in EntryKeys |-> None]
    /\ ret = None
    /\ worker = <<>>
    /\ main = [pc |-> "idle", started |-> 0, finished |-> 0,
               tag |-> [k \in ParserKeys |-> 0]]
    /\ ReconcileIdle
    /\ ParseIdle
    /\ ScreenIdle

ThreadsUnchanged == UNCHANGED <<used, now, entries, reconcileVars, parseVars, screenVars>>

\* another process changes the files
ThreadsDiskWrite ==
    /\ \E d \in DiskStates \ {disk} : disk' = d
    /\ UNCHANGED <<cache, heap, ret, worker, main>>
    /\ ThreadsUnchanged

\* the worker calls parse_history(), discover_projects() or discover_all_sessions()
WorkerCall(k) ==
    /\ worker = <<>>
    /\ worker' = <<Frame(k)>>
    /\ ret' = None
    /\ UNCHANGED <<disk, cache, heap, main>>
    /\ ThreadsUnchanged

\* if self._x is None; in sessions the branch taken starts with self.history
WorkerTest ==
    /\ worker # <<>>
    /\ Top.pc = "test"
    /\ worker' = IF cache[Top.key] # None THEN SetTop([Top EXCEPT !.pc = "return"])
                 ELSE IF Top.key = "sessions"
                 THEN Append(SetTop([Top EXCEPT !.pc = "history"]), Frame("history"))
                 ELSE SetTop([Top EXCEPT !.pc = "load"])
    /\ UNCHANGED <<disk, cache, heap, ret, main>>
    /\ ThreadsUnchanged

\* _parse_history(), _discover_projects(), _discover_all_sessions(h, p): the
\* last iterates its arguments, and None is not iterable
WorkerLoad ==
    /\ worker # <<>>
    /\ Top.pc = "load"
    /\ CASE Top.key = "history" ->
              \E r \in {_parse_history(disk.history_file)} :
                  /\ worker' = IF r.exc # "" THEN <<>>
                               ELSE SetTop([Top EXCEPT
                                       !.pc = "store",
                                       !.v = Some([val |-> r.val, tag |-> main.started])])
                  /\ ret' = IF r.exc = "" THEN ret
                            ELSE Some([op |-> "worker", key |-> Some(worker[1].key),
                                       exc |-> r.exc, val |-> None, tag |-> 0,
                                       finished |-> main.finished])
                  /\ heap' = thread_collect(heap, cache, worker')
         [] Top.key = "projects" ->
              \E o \in {alloc(heap)} :
                  /\ worker' = SetTop([Top EXCEPT
                                  !.pc = "store",
                                  !.v = Some([val |-> o, tag |-> main.started])])
                  /\ heap' = [heap EXCEPT ![o] = Some(_discover_projects(disk.projects_dir))]
                  /\ ret' = ret
         [] Top.key = "sessions" ->
              IF Top.h[1].val = None \/ Top.p[1].val = None
              THEN /\ worker' = <<>>
                   /\ ret' = Some([op |-> "worker", key |-> Some(worker[1].key),
                                   exc |-> "TypeError", val |-> None, tag |-> 0,
                                   finished |-> main.finished])
                   /\ heap' = thread_collect(heap, cache, worker')
              ELSE \E o \in {Top.p[1].val[1]} :
                   \E r \in {_discover_all_sessions(Top.h[1].val[1], heap[o][1])} :
                       /\ worker' = SetTop([Top EXCEPT
                                       !.pc = "store",
                                       !.v = Some([val |-> session_view(r.projects, r.sessions),
                                                   tag |-> Min(Top.h[1].tag, Top.p[1].tag)])])
                       /\ heap' = [heap EXCEPT ![o] = Some(r.projects)]
                       /\ ret' = ret
    /\ UNCHANGED <<disk, cache, main>>
    /\ ThreadsUnchanged

\* self._x = <the value loaded>
WorkerStore ==
    /\ worker # <<>>
    /\ Top.pc = "store"
    /\ cache' = [cache EXCEPT ![Top.key] = Some(Top.v[1].val)]
    /\ main' = [main EXCEPT !.tag[Top.key] = Top.v[1].tag]
    /\ worker' = SetTop([Top EXCEPT !.pc = "return", !.v = None])
    /\ heap' = thread_collect(heap, cache', worker')
    /\ UNCHANGED <<disk, ret>>
    /\ ThreadsUnchanged

\* return self._x: the attribute is read again.  Inside sessions the value
\* goes to _discover_all_sessions(self.history, self.projects), whose second
\* argument is evaluated next
WorkerReturn ==
    /\ worker # <<>>
    /\ Top.pc = "return"
    /\ \E got \in {[val |-> cache[Top.key], tag |-> main.tag[Top.key]]} :
       \E rest \in {SubSeq(worker, 1, Len(worker) - 1)} :
           IF rest = <<>>
           THEN /\ worker' = <<>>
                /\ ret' = Some([op |-> "worker", key |-> Some(Top.key), exc |-> "",
                                val |-> got.val, tag |-> got.tag,
                                finished |-> main.finished])
           ELSE /\ worker' =
                      IF Top.key = "history"
                      THEN Append([rest EXCEPT ![Len(rest)] =
                                      [@ EXCEPT !.pc = "projects", !.h = Some(got)]],
                                  Frame("projects"))
                      ELSE [rest EXCEPT ![Len(rest)] =
                               [@ EXCEPT !.pc = "load", !.p = Some(got)]]
                /\ ret' = ret
    /\ heap' = thread_collect(heap, cache, worker')
    /\ UNCHANGED <<disk, cache, main>>
    /\ ThreadsUnchanged

\* the main thread: refresh_data() calls cache.invalidate()
MainInvalidateCall ==
    /\ main.pc = "idle"
    /\ main.started < MaxInvalidations
    /\ main' = [main EXCEPT !.pc = InvalidateOrder[1], !.started = @ + 1]
    /\ UNCHANGED <<disk, cache, heap, ret, worker>>
    /\ ThreadsUnchanged

\* self._history = None, self._stats = None, self._projects = None,
\* self._sessions = None
MainInvalidateAssign ==
    /\ \E i \in DOMAIN InvalidateOrder :
           /\ main.pc = InvalidateOrder[i]
           /\ cache' = [cache EXCEPT ![InvalidateOrder[i]] = None]
           /\ main' = [main EXCEPT !.pc = IF i < Len(InvalidateOrder)
                                          THEN InvalidateOrder[i + 1] ELSE "return"]
    /\ heap' = thread_collect(heap, cache', worker)
    /\ UNCHANGED <<disk, ret, worker>>
    /\ ThreadsUnchanged

\* invalidate() returns
MainInvalidateReturn ==
    /\ main.pc = "return"
    /\ main' = [main EXCEPT !.pc = "idle", !.finished = @ + 1]
    /\ UNCHANGED <<disk, cache, heap, ret, worker>>
    /\ ThreadsUnchanged

ThreadsNext ==
    \/ ThreadsDiskWrite
    \/ \E k \in ThreadKeys : WorkerCall(k)
    \/ WorkerTest
    \/ WorkerLoad
    \/ WorkerStore
    \/ WorkerReturn
    \/ MainInvalidateCall
    \/ MainInvalidateAssign
    \/ MainInvalidateReturn

SpecThreads == ThreadsInit /\ [][ThreadsNext]_vars

(***************************************************************************)
(* Thread claims, over the runs of SpecThreads.                            *)
(***************************************************************************)
WorkerReturned == ret # None /\ ret[1].op = "worker"

\* C27: whatever the main thread does meanwhile, an accessor of
\* parsers.DataCache the worker thread called returns a collection: it
\* neither returns None nor fails.
C27_NeverNone ==
    WorkerReturned => (ret[1].exc = "" /\ ret[1].val # None)

\* C28: a value an accessor returns once a call of invalidate() has returned
\* is a value whose load began after that call of invalidate() began.
C28_NoneOlderThanInvalidate ==
    (WorkerReturned /\ ret[1].exc = "" /\ ret[1].val # None) =>
        ret[1].tag >= ret[1].finished


(***************************************************************************)
(* SpecSearch: the search screen (screens/search.py).  search holds the    *)
(* fields of SearchScreen and what its widgets show:                       *)
(*   value            the text of the Input                                *)
(*   table            the rows of the DataTable: [key, who, content]       *)
(*   status           what the status line says: [kind, count, shown]      *)
(*   _debounce_timer  None, or Some([query, active]): the timer set_timer  *)
(*                    returned, the query its callback searches for, and   *)
(*                    active until it has expired or stop() was called     *)
(*   workers          the workers run_worker started: [query, state,       *)
(*                    result]; _search_worker is None or Some(index)       *)
(*   events           the Worker.StateChanged messages not handled yet;    *)
(*                    those of a state other than SUCCESS are left out,    *)
(*                    the handler returns at once for them (ERROR apart,   *)
(*                    which the searches of these runs do not reach)       *)
(* A handler runs to its end on the main thread; a worker completes and a  *)
(* timer expires between two handlers.  ret.val is Some(query) when the    *)
(* handler called _do_search(query), else None.                            *)
(***************************************************************************)
\* results[:100]
ShownMax == 100

\* the workers one run starts
MaxWorkers == 2

\* mutant of prompt_matches: the comparison keeps the case
prompt_matches_case_sensitive(query, p) == contains(p.text, query)

\* query.lower() in p.text.lower()
prompt_matches(query, p) == contains(lower(p.text), lower(query))

\* table.add_row(date_str, p.project_short, "you", text_preview, key=f"p{i}")
prompt_row(i, p) ==
    [key |-> <<"p", i>>, who |-> "you",
     content |-> strip(replace_newlines(slice(p.text, 0, 120)))]

\* table.add_row(date_str, session.project_short, r["role"], snippet, key=str(i))
deep_row(i, r) == [key |-> <<"", i>>, who |-> r.role, content |-> slice(r.snippet, 0, 120)]

Status(kind, count, shown) == [kind |-> kind, count |-> count, shown |-> shown]

SearchScreen ==
    [value |-> <<>>, table |-> <<>>, status |-> Status("hint", 0, 0),
     _prompts |-> <<>>, _loaded |-> FALSE, _deep_results |-> <<>>,
     _prompt_results |-> <<>>, _deep_mode |-> FALSE, _debounce_timer |-> None,
     _search_worker |-> None, workers |-> <<>>, events |-> {}]

\* table.clear(); self._deep_results = []; self._prompt_results = []
cleared(s) == [s EXCEPT !.table = <<>>, !._deep_results = <<>>, !._prompt_results = <<>>]

\* _ensure_loaded: [exc, s, m]
_ensure_loaded(s, m, d) ==
    LET store(r) ==
            IF r.exc # "" THEN [exc |-> r.exc, s |-> s, m |-> r.m]
            ELSE [exc |-> "", s |-> [s EXCEPT !._prompts = r.val, !._loaded = TRUE], m |-> r.m]
    IN  IF s._loaded THEN [exc |-> "", s |-> s, m |-> m]
        ELSE store(cache_history(m, d))

\* the else branch of _do_search once the prompts are loaded
prompt_search(s, query) ==
    LET show(results) ==
            [s EXCEPT
                !._prompt_results = slice(results, 0, ShownMax),
                !.table = [i \in 1..Min(Len(results), ShownMax) |->
                              prompt_row(i - 1, results[i])],
                !.status = IF Len(results) > 0
                           THEN Status("results", Len(results), Min(Len(results), ShownMax))
                           ELSE Status("No results", 0, 0)]
    IN  show(SelectSeq(s._prompts, LAMBDA p : prompt_matches(query, p)))

\* the deep branch of _do_search: the running worker is cancelled, a new one started
deep_search(s, query) ==
    LET running == s._search_worker # None
                       /\ s.workers[s._search_worker[1]].state = "RUNNING"
        cancelled == IF running
                     THEN [s EXCEPT !.workers[s._search_worker[1]].state = "CANCELLED"]
                     ELSE s
    IN  [cancelled EXCEPT
            !.status = Status("Searching", 0, 0),
            !.workers = Append(@, [query |-> query, state |-> "RUNNING", result |-> <<>>]),
            !._search_worker = Some(Len(s.workers) + 1)]

\* _do_search(query): [exc, s, m]
_do_search(s, query, m, d) ==
    LET searched(l) == IF l.exc # "" THEN l
                       ELSE [exc |-> "", s |-> prompt_search(l.s, query), m |-> l.m]
    IN  IF s._deep_mode THEN [exc |-> "", s |-> deep_search(cleared(s), query), m |-> m]
        ELSE searched(_ensure_loaded(cleared(s), m, d))

\* the prompts and inputs of the runs: a history that is not there, one of
\* three prompts, and one of ShownMax + 3 prompts, oldest first, of which all
\* but one hold "abc"
Chars_Abc  == <<"A", "b", "c">>
Chars_xabc == <<"x", "a", "b", "c", "\n", "d">>
Chars_xyz  == <<"x", "y", "z">>

SearchLine(k, text) == [HLine(k * TsStep, "s1") EXCEPT !.display = text]

SearchHistories ==
    { None,
      Some(<<SearchLine(1, Chars_Abc), SearchLine(3, Chars_xyz), SearchLine(2, Chars_xabc)>>),
      Some([k \in 1..(ShownMax + 3) |->
               SearchLine(k, IF k = 2 THEN Chars_xyz
                             ELSE IF k % 2 = 1 THEN Chars_Abc ELSE Chars_xabc)]) }

\* what the user may have in the input
InputValues ==
    { <<>>, <<" ", "a", "b", " ">>, <<"A", "B", "c", " ">> }

\* the transcript the deep search reads
ScreenLines ==
    <<TLine("object", "user", NoTimestamp, StrMessage(<<"A", "b", "c", " ", "d">>))>>

SearchInit ==
    /\ disk \in {[history_file |-> h, stats_file |-> None, projects_dir |-> None,
                  plans_dir |-> None] : h \in SearchHistories}
    /\ used = {}
    /\ now = 0
    /\ cache = [k \in ParserKeys |-> None]
    /\ heap = [o \in Oids |-> None]
    /\ entries = [k \in EntryKeys |-> None]
    /\ ret = None
    /\ search = SearchScreen
    /\ conv = None
    /\ ReconcileIdle
    /\ ParseIdle
    /\ ThreadIdle

SearchUnchanged ==
    UNCHANGED <<disk, used, now, heap, entries, conv, reconcileVars, parseVars, threadVars>>

Handled(op, searched) == Some([op |-> op, key |-> None, exc |-> "", val |-> searched])

\* the step of a handler that calls _do_search(query) on the screen s
DoSearch(op, s, query) ==
    /\ ~s._deep_mode \/ Len(s.workers) < MaxWorkers
    /\ \E r \in {_do_search(s, query, [cache |-> cache, heap |-> heap], disk)} :
           /\ search' = r.s
           /\ cache' = r.m.cache
           /\ ret' = Some([op |-> op, key |-> None, exc |-> r.exc, val |-> Some(query)])

\* on_input_changed: the user has changed the text of the input
OnInputChanged(value) ==
    /\ value # search.value
    /\ \E query \in {strip(value)} :
           search' =
               IF Len(query) < 3
               THEN [cleared(search) EXCEPT !.value = value, !.status = Status("min 3", 0, 0)]
               ELSE IF search._deep_mode
               THEN [search EXCEPT !.value = value, !.status = Status("Press Enter", 0, 0)]
               ELSE [search EXCEPT !.value = value,
                                   !._debounce_timer = Some([query |-> query, active |-> TRUE])]
    /\ ret' = Handled("on_input_changed", None)
    /\ cache' = cache
    /\ SearchUnchanged

\* the debounce timer expires: lambda: self._do_search(query)
TimerExpires ==
    /\ search._debounce_timer # None
    /\ search._debounce_timer[1].active
    /\ DoSearch("timer", [search EXCEPT !._debounce_timer[1].active = FALSE],
                search._debounce_timer[1].query)
    /\ SearchUnchanged

\* on_switch_changed: the user has toggled the Deep switch
OnSwitchChanged ==
    /\ \E s \in {[search EXCEPT !._deep_mode = ~@,
                                !.status = IF search._deep_mode THEN Status("Prompt search", 0, 0)
                                           ELSE Status("Deep search", 0, 0)]} :
           IF Len(strip(s.value)) >= 3 /\ ~s._deep_mode
           THEN DoSearch("on_switch_changed", s, strip(s.value))
           ELSE /\ search' = s
                /\ ret' = Handled("on_switch_changed", None)
                /\ cache' = cache
    /\ SearchUnchanged

\* on_input_submitted: Enter in the input
OnInputSubmitted ==
    /\ IF Len(strip(search.value)) >= 3
       THEN DoSearch("on_input_submitted", search, strip(search.value))
       ELSE /\ search' = search
            /\ ret' = Handled("on_input_submitted", None)
            /\ cache' = cache
    /\ SearchUnchanged

\* the thread of a worker returns from search_conversations(query, max_results=100)
WorkerSucceeds(i) ==
    /\ i \in DOMAIN search.workers
    /\ search.workers[i].state = "RUNNING"
    /\ \E r \in {search_conversations(search.workers[i].query, ShownMax, SearchedSessions,
                                      SearchedFiles(ScreenLines))} :
           search' = [search EXCEPT
                         !.workers[i].state = "SUCCESS",
                         !.workers[i].result = r.val,
                         !.events = @ \cup {[worker |-> i, state |-> "SUCCESS"]}]
    /\ ret' = None
    /\ cache' = cache
    /\ SearchUnchanged

\* on_worker_state_changed
OnWorkerStateChanged(event) ==
    /\ event \in search.events
    /\ \E s \in {[search EXCEPT !.events = @ \ {event}]} :
       \E results \in {s.workers[event.worker].result} :
           search' =
               IF s._search_worker # Some(event.worker) \/ event.state # "SUCCESS" THEN s
               ELSE [s EXCEPT
                        !._deep_results = results,
                        !.table = [i \in DOMAIN results |-> deep_row(i - 1, results[i])],
                        !.status = IF Len(results) > 0
                                   THEN Status("conversation matches", Len(results), 0)
                                   ELSE Status("No matches", 0, 0)]
    /\ ret' = Handled("on_worker_state_changed", None)
    /\ cache' = cache
    /\ SearchUnchanged

SearchNext ==
    \/ \E value \in InputValues : OnInputChanged(value)
    \/ TimerExpires
    \/ OnSwitchChanged
    \/ OnInputSubmitted
    \/ \E i \in 1..MaxWorkers : WorkerSucceeds(i)
    \/ \E i \in 1..MaxWorkers : OnWorkerStateChanged([worker |-> i, state |-> "SUCCESS"])

SpecSearch == SearchInit /\ [][SearchNext]_vars

(***************************************************************************)
(* Search screen claims, over the runs of SpecSearch.                      *)
(***************************************************************************)
\* a handler has just run a prompt search
PromptSearched == ret # None /\ ret[1].val # None /\ ret[1].exc = "" /\ ~search._deep_mode

\* the prompts of history.jsonl, newest first, whose text holds the query
\* whatever the case of the letters
MatchingPrompts(query) ==
    SelectSeq(_parse_history(disk.history_file).val,
              LAMBDA p : \E i \in 0..(Len(p.text) - Len(query)) :
                            lower(SubSeq(p.text, i + 1, i + Len(query))) = lower(query))

\* C25: a prompt search finds the prompts whose text holds the query, the case
\* of the letters ignored, in the order of the collection, newest first; the
\* screen keeps and shows the first 100 of them and the status line gives the
\* number of all of them.
C25_PromptSearch ==
    PromptSearched =>
        LET results == MatchingPrompts(ret[1].val[1])
        IN  /\ search._prompt_results = SubSeq(results, 1, Min(Len(results), ShownMax))
            /\ Len(search.table) = Len(search._prompt_results)
            /\ search.status.count = Len(results)
            /\ \A i, j \in DOMAIN search._prompt_results :
                   i < j => search._prompt_results[i].timestamp
                                >= search._prompt_results[j].timestamp

\* a search for "ABc" has found more than 100 prompts and shows 100 of them
C25_Witness ==
    /\ PromptSearched
    /\ ret[1].val[1] = <<"A", "B", "c">>
    /\ search.status.count > ShownMax
    /\ Len(search._prompt_results) = ShownMax
    /\ Len(search.table) = ShownMax

ShortInput == Len(strip(search.value)) < 3

\* C29: while the input holds fewer than 3 characters, white space at its
\* ends not counted, the table and both result lists are empty and no handler
\* or timer runs a search.
C29_ShortInputShowsNothing ==
    ShortInput =>
        /\ search.table = <<>>
        /\ search._prompt_results = <<>>
        /\ search._deep_results = <<>>
        /\ (ret = None \/ ret[1].val = None)


(***************************************************************************)
(* SpecConversation: the conversation viewer (screens/conversation.py).    *)
(* conv holds the fields of ConversationScreen and what it shows:          *)
(*   _current_session  None or Some(session id)                            *)
(*   _load_worker      None or Some(index into workers)                    *)
(*   workers           the workers run_worker started: the session whose   *)
(*                     transcript the thread parses, the state, and the    *)
(*                     result or the error                                 *)
(*   events            the Worker.StateChanged messages not handled yet    *)
(*                     (SUCCESS and ERROR; the handler does nothing for    *)
(*                     the others)                                         *)
(*   log               what the RichLog shows: kind "empty", "messages",   *)
(*                     "no messages" or "error", the session of the        *)
(*                     header, the messages written, the worker they came  *)
(*                     from                                                *)
(*   loading           the spinner is displayed                            *)
(* The sessions are those _discover_projects builds, so each has a         *)
(* jsonl_path (parsers.py 245-249).  A worker that was cancelled ends in   *)
(* CANCELLED whatever its thread returns afterwards.                       *)
(***************************************************************************)
\* the workers one run starts
MaxLoads == 3

ConvSessions == {"s1", "s2", "s3"}

\* the transcripts of the sessions: two that parse, to different messages,
\* and one on which parse_session_transcript raises
ConvTranscript(sid) ==
    CASE sid = "s1" ->
            <<TLine("object", "user", NoTimestamp, StrMessage(<<"h", "i", " ", "A">>))>>
      [] sid = "s2" ->
            <<TLine("object", "assistant", NoTimestamp,
                    ListMessage(<<TextPart(Str(<<"A", "b">>))>>))>>
      [] sid = "s3" ->
            <<TLine("object", "assistant", NoTimestamp, ListMessage(<<TextPart(NotAStr)>>))>>

EmptyLog == [kind |-> "empty", session |-> None, messages |-> <<>>, worker |-> 0]

ConversationScreen ==
    [_current_session |-> None, _load_worker |-> None, workers |-> <<>>, events |-> {},
     log |-> EmptyLog, loading |-> FALSE]

\* mutant of is_load_worker: every worker's result is rendered
is_load_worker_any(c, event) == TRUE

\* event.worker is self._load_worker
is_load_worker(c, event) == c._load_worker = Some(event.worker)

\* session.jsonl_path: _discover_projects builds every Session with the file
\* it found
jsonl_path(sid) == IF sid \in ConvSessions THEN Some(sid) ELSE None

\* load_session(session)
load_session(c, sid) ==
    LET running == c._load_worker # None /\ c.workers[c._load_worker[1]].state = "RUNNING"
        cancelled == IF running
                     THEN [c EXCEPT !.workers[c._load_worker[1]].state = "CANCELLED"]
                     ELSE c
        selected == [cancelled EXCEPT !._current_session = Some(sid), !.log = EmptyLog]
    IN  IF jsonl_path(sid) = None
        THEN [selected EXCEPT !.log = [EmptyLog EXCEPT !.kind = "no data file"]]
        ELSE [selected EXCEPT
                 !.loading = TRUE,
                 !.workers = Append(@, [session |-> sid, state |-> "RUNNING",
                                        result |-> <<>>, error |-> ""]),
                 !._load_worker = Some(Len(c.workers) + 1)]

\* _render_messages(messages)
_render_messages(c, messages, w) ==
    [c EXCEPT
        !.loading = FALSE,
        !.log = IF c._current_session = None THEN EmptyLog
                ELSE IF messages = <<>>
                THEN [kind |-> "no messages", session |-> c._current_session,
                      messages |-> <<>>, worker |-> w]
                ELSE [kind |-> "messages", session |-> c._current_session,
                      messages |-> messages, worker |-> w]]

\* _show_error(message)
_show_error(c, w) ==
    [c EXCEPT !.loading = FALSE,
              !.log = [kind |-> "error", session |-> None, messages |-> <<>>, worker |-> w]]

\* on_worker_state_changed(event)
on_worker_state_changed(c, event) ==
    IF ~is_load_worker(c, event) THEN c
    ELSE IF event.state = "SUCCESS"
    THEN _render_messages(c, c.workers[event.worker].result, event.worker)
    ELSE IF event.state = "ERROR" THEN _show_error(c, event.worker)
    ELSE c

ConversationInit ==
    /\ conv = ConversationScreen
    /\ search = None
    /\ ret = None
    /\ disk = [history_file |-> None, stats_file |-> None, projects_dir |-> None,
               plans_dir |-> None]
    /\ used = {}
    /\ now = 0
    /\ cache = [k \in ParserKeys |-> None]
    /\ heap = [o \in Oids |-> None]
    /\ entries = [k \in EntryKeys |-> None]
    /\ ReconcileIdle
    /\ ParseIdle
    /\ ThreadIdle

ConversationUnchanged ==
    UNCHANGED <<disk, used, now, cache, heap, entries, search, reconcileVars, parseVars,
                threadVars>>

\* the user opens a session: _open_session calls load_session
LoadSession(sid) ==
    /\ Len(conv.workers) < MaxLoads
    /\ conv' = load_session(conv, sid)
    /\ ret' = Some([op |-> "load_session", key |-> Some(sid), exc |-> "", val |-> None])
    /\ ConversationUnchanged

\* the thread of a worker that was not cancelled returns from, or raises in,
\* parse_session_transcript(session.jsonl_path)
LoadWorkerEnds(i) ==
    /\ i \in DOMAIN conv.workers
    /\ conv.workers[i].state = "RUNNING"
    /\ \E r \in {parse_session_transcript(
                    IF jsonl_path(conv.workers[i].session) = None THEN None
                    ELSE Some(ConvTranscript(conv.workers[i].session)),
                    DefaultMaxMessages)} :
       \E state \in {IF r.exc = "" THEN "SUCCESS" ELSE "ERROR"} :
           conv' = [conv EXCEPT
                       !.workers[i].state = state,
                       !.workers[i].result = r.val,
                       !.workers[i].error = r.exc,
                       !.events = @ \cup {[worker |-> i, state |-> state]}]
    /\ ret' = None
    /\ ConversationUnchanged

\* the screen handles a Worker.StateChanged message
OnLoadWorkerStateChanged(event) ==
    /\ event \in conv.events
    /\ conv' = on_worker_state_changed([conv EXCEPT !.events = @ \ {event}], event)
    /\ ret' = Some([op |-> "on_worker_state_changed", key |-> None, exc |-> "",
                    val |-> None])
    /\ ConversationUnchanged

ConversationNext ==
    \/ \E sid \in ConvSessions : LoadSession(sid)
    \/ \E i \in 1..MaxLoads : LoadWorkerEnds(i)
    \/ \E i \in 1..MaxLoads, state \in {"SUCCESS", "ERROR"} :
           OnLoadWorkerStateChanged([worker |-> i, state |-> state])

SpecConversation == ConversationInit /\ [][ConversationNext]_vars

(***************************************************************************)
(* Conversation viewer claims, over the runs of SpecConversation.          *)
(***************************************************************************)
\* C30: the messages the log shows are those of the session selected last:
\* they come from the worker started for it, stand under its header and are
\* what its transcript parses to.  Nothing of a session whose load was still
\* running, or had ended without being handled, when another session was
\* selected is rendered afterwards.
C30_RenderedBelongToCurrent ==
    conv.log.kind \in {"messages", "no messages"} =>
        /\ conv.log.session = conv._current_session
        /\ conv.workers[conv.log.worker].session = conv._current_session[1]
        /\ conv._load_worker = Some(conv.log.worker)
        /\ conv.log.messages
              = parse_session_transcript(Some(ConvTranscript(conv._current_session[1])),
                                         DefaultMaxMessages).val

\* the messages of the second session selected are shown; the load of the
\* first, another session, was running when the second was selected, or had
\* ended and was handled only afterwards
C30_Witness ==
    /\ conv.log.kind = "messages"
    /\ conv.log.worker = 2
    /\ conv.workers[1].session # conv.workers[2].session
    /\ \/ conv.workers[1].state = "CANCELLED"
       \/ conv.workers[1].state = "SUCCESS"
              /\ [worker |-> 1, state |-> "SUCCESS"] \notin conv.events
              /\ ret # None /\ ret[1].op = "on_worker_state_changed"

====
